---- MODULE Spec2Model ----
(***************************************************************************)
(* jack_midi_clock: the JACK-transport MIDI Beat Clock generator.          *)
(*                                                                         *)
(* The model follows src/jack_midi_clock.c.  One step of the generator is  *)
(* one call of the real-time callback process(): it reads a transport      *)
(* snapshot (jack_transport_query), clears the MIDI port buffer and writes *)
(* the messages of the block.                                              *)
(*                                                                         *)
(* Numbers.  The C doubles mclk_last_tick, clock_tick_interval and         *)
(* resync_delay are modelled as exact rationals <<n, d>> (d > 0, reduced). *)
(* The frame rates and tempi the model draws give intervals with a small   *)
(* denominator, for which the double arithmetic of the code is exact (or   *)
(* far from a rounding tie), so llrint() of the accumulated double is the  *)
(* round-half-to-even of the exact value.                                  *)
(*                                                                         *)
(* jack_mclk_dump: the MIDI Beat Clock decoder, src/jack_mclk_dump.c.  Its *)
(* real-time callback process() classifies the events of a block and       *)
(* writes them to a ring buffer; the main thread reads the ring buffer and *)
(* reports each event (print_time_event).  The two threads are modelled    *)
(* step by step, one step per access to what they share.  The decoder runs *)
(* in the specification DumpSpec, the generator in Spec; each leaves the   *)
(* other program's variables alone.                                        *)
(***************************************************************************)
EXTENDS Integers, Sequences, FiniteSets, TLC

(***************************************************************************)
(* Program constants                                                       *)
(***************************************************************************)
MSG_NO_TRANSPORT == 1
MSG_NO_POSITION == 2

MIDI_RT_CLOCK == 248
MIDI_RT_START == 250
MIDI_RT_CONTINUE == 251
MIDI_RT_STOP == 252
MIDI_SONG_POS == 242

JackTransportStopped == "Stopped"
JackTransportRolling == "Rolling"
JackTransportStarting == "Starting"

TransportStates == {JackTransportStopped, JackTransportRolling, JackTransportStarting}

(***************************************************************************)
(* Bounds of the model                                                     *)
(***************************************************************************)
\* transport frames run over 0..MaxFrame
MaxFrame == 6
\* block lengths (nframes) run over 1..MaxBlock
MaxBlock == 3

\* frames a transport locate lands on
Locates == {0, 3}
\* xpos.frame_rate
FrameRates == {48}
\* -b <bpm>
UserBpms == {0, 60}
\* -d <sec>, as rationals
ResyncDelays == {<<1, 2>>}
\* events the port buffer has room for in a block: all of them
AmpleRoom == 4 * MaxBlock + 4

\* what a timebase master reports: beats_per_minute, beat_type and the BBT frame
\* offset (0 when JackBBTFrameOffset is not valid)
Timebase(bpm, bt, off) == [beats_per_minute |-> bpm, beat_type |-> bt, bbt_offset |-> off]

\* The model runs the generator in four environments.  In TransportEnv the
\* transport changes state, is relocated over several bar|beat|tick positions
\* (beats_per_bar 2, ticks_per_beat 4) and the port buffer may be short of room,
\* at one tempo and one block length.  In ClockEnv the tempo, the beat type, the
\* BBT frame offset and the block length vary, at one bar|beat|tick position,
\* and the transport stops and rolls.  stale_beat_types are the values of
\* xpos.beat_type in a snapshot without valid BBT: jack_transport_query() does
\* not define the field then, and line 362 reads it with --strict-bpm.
\* forced_bpms are further -b values that come with -B alone.
TransportEnv ==
  [bbts |-> {<<1, 1, 0>>, <<1, 1, 2>>, <<1, 2, 1>>},
   timebases |-> {Timebase(120, 4, 0)},
   user_bpms |-> UserBpms, strict |-> {FALSE}, force |-> {FALSE}, filters |-> 0..3,
   states |-> TransportStates,
   frames |-> 0..(MaxFrame \div 2), blocks |-> {MaxBlock - 1},
   rooms |-> {0, 1, AmpleRoom}, early |-> FALSE, stale_beat_types |-> {4},
   forced_bpms |-> {}, delays |-> ResyncDelays]

ClockEnv ==
  [bbts |-> {<<1, 1, 0>>},
   timebases |-> {Timebase(120, 4, 0), Timebase(48, 4, 0), Timebase(120, 8, 0),
                  Timebase(120, 4, 1)},
   user_bpms |-> UserBpms \ {0}, strict |-> BOOLEAN, force |-> BOOLEAN, filters |-> {0},
   states |-> {JackTransportStopped, JackTransportRolling},
   frames |-> 0..MaxFrame, blocks |-> 1..MaxBlock,
   rooms |-> {AmpleRoom}, early |-> FALSE, stale_beat_types |-> {4, 8},
   forced_bpms |-> {0}, delays |-> ResyncDelays]

\* In EdgeEnv the requests to exit may come as soon as their handlers are
\* registered, before main() reaches line 626, and the timebase master also
\* reports a tempo of zero and a negative tempo.
EdgeEnv ==
  [bbts |-> {<<1, 1, 0>>},
   timebases |-> {Timebase(120, 4, 0), Timebase(0, 4, 0), Timebase(-120, 4, 0)},
   user_bpms |-> {0}, strict |-> {FALSE}, force |-> {FALSE}, filters |-> {0},
   states |-> {JackTransportStopped, JackTransportRolling},
   frames |-> 0..(MaxFrame \div 2), blocks |-> {MaxBlock - 1},
   rooms |-> {AmpleRoom}, early |-> TRUE, stale_beat_types |-> {4},
   forced_bpms |-> {}, delays |-> ResyncDelays]

\* In SyncEnv the tempo is 240 (a Clock every half frame, six in a block) and
\* the resync delay is 1/16 s, which puts the sync target one MIDI beat after
\* the position sent: relocations over four bar|beat|tick positions arm
\* targets that the tick loop reaches, at the start of a block or within it.
\* Bar 2049 is the first whose song position (16384) has more than 14 bits.
SyncEnv ==
  [bbts |-> {<<1, 1, 0>>, <<1, 1, 2>>, <<1, 2, 1>>, <<2, 1, 0>>, <<2049, 1, 0>>},
   timebases |-> {Timebase(240, 4, 0)},
   user_bpms |-> {0}, strict |-> {FALSE}, force |-> {FALSE},
   filters |-> {0, MSG_NO_TRANSPORT, MSG_NO_POSITION},
   states |-> TransportStates,
   frames |-> 0..(MaxFrame \div 2), blocks |-> {MaxBlock},
   rooms |-> {0, 1, AmpleRoom}, early |-> FALSE, stale_beat_types |-> {4},
   forced_bpms |-> {}, delays |-> {<<1, 16>>}]

Environments == {"transport", "clock"}

Env(e) ==
  IF e = "transport" THEN TransportEnv
  ELSE IF e = "clock" THEN ClockEnv
  ELSE IF e = "sync" THEN SyncEnv
  ELSE EdgeEnv

(***************************************************************************)
(* Rationals standing for the doubles of the code                          *)
(***************************************************************************)
RECURSIVE GCD(_, _)
GCD(a, b) == IF b = 0 THEN a ELSE GCD(b, a % b)

Abs(x) == IF x < 0 THEN -x ELSE x

\* the rational n/d (d # 0) in lowest terms with a positive denominator
Rat(n, d) ==
  LET g == GCD(Abs(n), Abs(d))
      s == IF d < 0 THEN -1 ELSE 1
  IN <<(s * n) \div g, (s * d) \div g>>

RatOfInt(i) == <<i, 1>>

RatAdd(p, q) == Rat(p[1] * q[2] + q[1] * p[2], p[2] * q[2])

RatLess(p, q) == p[1] * q[2] < q[1] * p[2]

\* the rational i * q
RatScale(i, q) == Rat(i * q[1], q[2])

\* llrint() / rintf() in the default rounding mode: nearest, ties to even
llrint(q) ==
  LET f == q[1] \div q[2]
      r == q[1] % q[2]
  IN IF 2 * r < q[2] THEN f
     ELSE IF 2 * r > q[2] THEN f + 1
     ELSE IF f % 2 = 0 THEN f ELSE f + 1

\* floor() of a rational
floor(q) == q[1] \div q[2]

(***************************************************************************)
(* State                                                                   *)
(***************************************************************************)
VARIABLES
  \* application state of the generator (file scope statics)
  m_xstate,            \* tracked transport state
  mclk_last_tick,      \* tick accumulator (a rational standing for the double)
  song_position_sync,  \* armed 'continue' sync target, -1 when none
  last_xpos,           \* remembered BBT position
  client_state,        \* "Init", "Run", "Exit"
  \* the main thread of the generator, lines 617-632
  clock_main_pc,       \* "start" (line 621), "go" (line 626), "loop" (627-629), "done"
  wake_main_pipe,      \* bytes in the pipe of wake_main_init(), -1 while there is none
  \* command line options
  user_bpm, force_bpm, tempo_is_qnpm, msg_filter, resync_delay,
  \* the last call of process(): its inputs and what it wrote
  xstate,              \* jack_transport_query(): transport state
  xpos,                \* jack_transport_query(): position
  nframes,             \* block length
  port_buf,            \* the jack_midi_event_reserve() calls of the block, in order
  tick_loop_hung,      \* the while(1) of line 370 does not end: process() never returns
  \* history: the frame the accumulator was last reset to (line 327), as long as
  \* the transport has been rolling steadily since; -1 otherwise
  tick_origin,
  \* history: while the tracked state is Starting, and after the block that
  \* leaves Starting, the tracked state Starting was entered from; "none"
  \* otherwise
  starting_from,
  \* the environment of the run, one of Environments (generator) or
  \* DumpEnvironments (decoder)
  env

VARIABLES
  \* jack_mclk_dump.c, file scope
  rb,                  \* the ring buffer: the timenfo events written and not yet read
  monotonic_cnt,       \* frames of all blocks handled so far
  run,                 \* 1 until a signal asks to stop
  j_client,            \* "client", or "NULL" after jack_shutdown() or cleanup()
  state,               \* struct appstate
  \* the real-time callback process()
  jack_buf,            \* events of the block in progress that are still to be handled
  in_nframes,          \* its block length
  rt_pc,               \* "idle", "event" (before process_jmidi_event), "signal" (line 125)
  \* the main thread, lines 466-477
  main_pc,             \* "test" (line 466), "read" (468-473), "wait" (475), "done"
  mqlen,               \* events still to be read in the for loop
  data_ready,          \* the main thread has been signalled while in pthread_cond_wait
  report,              \* what the last print_time_event() printed
  \* history: every event written to the ring buffer / read from it, in order
  enqueued, dequeued,
  \* history: the number of MIDI events the port has delivered
  delivered

VARIABLES
  \* the delay locked loop of jack_mclk_dump.c on its own, in doubles
  loop,                \* DelayLockedLoop, once init_dll() has run
  loop_ret,            \* what the last run_dll() returned, and its error e
  feed                 \* the timestamps fed to the loop so far

dll_vars == <<loop, loop_ret, feed>>

dump_vars == <<rb, monotonic_cnt, run, j_client, state, jack_buf, in_nframes, rt_pc,
               main_pc, mqlen, data_ready, report, enqueued, dequeued, delivered,
               dll_vars>>

gen_vars == <<m_xstate, mclk_last_tick, song_position_sync, last_xpos>>
opt_vars == <<user_bpm, force_bpm, tempo_is_qnpm, msg_filter, resync_delay>>
blk_vars == <<xstate, xpos, nframes, port_buf, tick_loop_hung, tick_origin,
              starting_from>>
main_vars == <<clock_main_pc, wake_main_pipe>>
vars == <<gen_vars, client_state, main_vars, opt_vars, blk_vars, env, dump_vars>>

NoTransport == (msg_filter \div MSG_NO_TRANSPORT) % 2 = 1
NoPosition == (msg_filter \div MSG_NO_POSITION) % 2 = 1

(***************************************************************************)
(* The MIDI port buffer.  port_buf records every jack_midi_event_reserve() *)
(* call of the block with its result: ok is FALSE when the buffer had no   *)
(* room and the call returned NULL.  line is the source line of the call.  *)
(***************************************************************************)
Written(buf) == SelectSeq(buf, LAMBDA e : e.ok)

jack_midi_event_reserve(buf, room, time, data, line) ==
  Append(buf, [time |-> time, data |-> data, line |-> line,
               ok |-> Len(Written(buf)) < room])

(***************************************************************************)
(* Helpers of process()                                                    *)
(***************************************************************************)
\* faulty variant: the tick is left out of the comparison
pos_changed_bar_beat(xp0, xp1) ==
  IF ~xp0.valid THEN -1
  ELSE IF ~xp1.valid THEN -2
  ELSE IF xp0.bar = xp1.bar /\ xp0.beat = xp1.beat THEN 0
  ELSE 1

\* compare two BBT positions
pos_changed(xp0, xp1) ==
  IF ~xp0.valid THEN -1
  ELSE IF ~xp1.valid THEN -2
  ELSE IF xp0.bar = xp1.bar /\ xp0.beat = xp1.beat /\ xp0.tick = xp1.tick THEN 0
  ELSE 1

\* copy relevant BBT info from jack_position_t
remember_pos(xp0, xp1) ==
  IF ~xp1.valid THEN xp0
  ELSE [valid |-> xp1.valid, bar |-> xp1.bar, beat |-> xp1.beat, tick |-> xp1.tick]

\* the automatic offset of calc_song_pos (off < 0)
auto_offset(xp) ==
  IF xp.bar = 1 /\ xp.beat = 1 /\ xp.tick = 0 THEN 0
  ELSE llrint(Rat(xp.beats_per_minute * 4 * resync_delay[1], 60 * resync_delay[2]))

\* song position (MIDI beats) from the BBT info, -1 without BBT
calc_song_pos(xp, off) ==
  IF ~xp.valid THEN -1
  ELSE (IF off < 0 THEN auto_offset(xp) ELSE off)
       + 4 * ((xp.bar - 1) * xp.beats_per_bar + (xp.beat - 1))
       + floor(Rat(4 * xp.tick, xp.ticks_per_beat))

\* faulty variant: the position message ignores the message filter
send_pos_message_unfiltered(buf, room, xp, off, line) ==
  LET bcnt == calc_song_pos(xp, off) IN
  IF bcnt < 0 \/ bcnt >= 16384 THEN [ret |-> -1, buf |-> buf]
  ELSE LET b == jack_midi_event_reserve(buf, room, 0,
                  <<MIDI_SONG_POS, bcnt % 128, (bcnt \div 128) % 128>>, line)
       IN IF ~b[Len(b)].ok THEN [ret |-> -1, buf |-> b]
          ELSE [ret |-> bcnt, buf |-> b]

\* faulty variant: the value is returned whether the event was written or not
send_pos_message_unchecked(buf, room, xp, off, line) ==
  IF NoPosition THEN [ret |-> -1, buf |-> buf]
  ELSE LET bcnt == calc_song_pos(xp, off) IN
       IF bcnt < 0 \/ bcnt >= 16384 THEN [ret |-> -1, buf |-> buf]
       ELSE [ret |-> bcnt,
             buf |-> jack_midi_event_reserve(buf, room, 0,
                       <<MIDI_SONG_POS, bcnt % 128, (bcnt \div 128) % 128>>, line)]

\* returns the value sent (or -1) and the buffer
send_pos_message(buf, room, xp, off, line) ==
  IF NoPosition THEN [ret |-> -1, buf |-> buf]
  ELSE LET bcnt == calc_song_pos(xp, off) IN
       IF bcnt < 0 \/ bcnt >= 16384 THEN [ret |-> -1, buf |-> buf]
       ELSE LET b == jack_midi_event_reserve(buf, room, 0,
                       <<MIDI_SONG_POS, bcnt % 128, (bcnt \div 128) % 128>>, line)
            IN IF ~b[Len(b)].ok THEN [ret |-> -1, buf |-> b]
               ELSE [ret |-> bcnt, buf |-> b]

\* send 1 byte MIDI message
send_rt_message(buf, room, time, rt_msg, line) ==
  jack_midi_event_reserve(buf, room, time, <<rt_msg>>, line)

(***************************************************************************)
(* process(), lines 258-264: position updates if stopped and located       *)
(***************************************************************************)
LocateStep(buf, room, xs, xp) ==
  IF xs = JackTransportStopped /\ xs = m_xstate /\ pos_changed(last_xpos, xp) > 0
  THEN LET r == send_pos_message(buf, room, xp, -1, 261)
       IN [buf |-> r.buf, sync |-> r.ret]
  ELSE [buf |-> buf, sync |-> song_position_sync]

(***************************************************************************)
(* process(), lines 267-318: start/stop/continue if the state changed.     *)
(* st is the result of LocateStep.                                         *)
(***************************************************************************)
\* faulty variant: the position message is written before the Stop
StopCase_position_first(st, room, xp) ==
  LET r == send_pos_message(st.buf, room, xp, -1, 273)
  IN [buf |-> IF ~NoTransport
              THEN send_rt_message(r.buf, room, 0, MIDI_RT_STOP, 271)
              ELSE r.buf,
      sync |-> r.ret]

StopCase(st, room, xp) ==
  LET b1 == IF ~NoTransport
            THEN send_rt_message(st.buf, room, 0, MIDI_RT_STOP, 271)
            ELSE st.buf
      r == send_pos_message(b1, room, xp, -1, 273)
  IN [buf |-> r.buf, sync |-> r.ret]

\* faulty variant: the Continue is sent whether or not the position message was sent
LocateWhileRollingCase_always_continue(st, room, xp) ==
  LET b1 == IF st.sync < 0
            THEN send_rt_message(st.buf, room, 0, MIDI_RT_STOP, 282)
            ELSE st.buf
  IN IF st.sync # 0
     THEN LET r == send_pos_message(b1, room, xp, -1, 286)
          IN IF ~NoTransport
             THEN [buf |-> send_rt_message(r.buf, room, 0, MIDI_RT_CONTINUE, 288),
                   sync |-> r.ret]
             ELSE [buf |-> r.buf, sync |-> r.ret]
     ELSE [buf |-> b1, sync |-> -1]

\* faulty variant: the Stop is sent whatever the sync target
LocateWhileRollingCase_always_stop(st, room, xp) ==
  LET b1 == send_rt_message(st.buf, room, 0, MIDI_RT_STOP, 282)
  IN IF st.sync # 0
     THEN LET r == send_pos_message(b1, room, xp, -1, 286)
          IN IF r.ret < 0 /\ ~NoTransport
             THEN [buf |-> send_rt_message(r.buf, room, 0, MIDI_RT_CONTINUE, 288),
                   sync |-> r.ret]
             ELSE [buf |-> r.buf, sync |-> r.ret]
     ELSE [buf |-> b1, sync |-> -1]

\* faulty variant: the SongPosition is re-sent after a Start at frame 0 as well
LocateWhileRollingCase_resend_after_start(st, room, xp) ==
  LET b1 == IF st.sync < 0
            THEN send_rt_message(st.buf, room, 0, MIDI_RT_STOP, 282)
            ELSE st.buf
      r == send_pos_message(b1, room, xp, -1, 286)
  IN IF r.ret < 0 /\ ~NoTransport
     THEN [buf |-> send_rt_message(r.buf, room, 0, MIDI_RT_CONTINUE, 288),
           sync |-> r.ret]
     ELSE [buf |-> r.buf, sync |-> r.ret]

\* transport locate while rolling: Rolling -> Starting -> Rolling
LocateWhileRollingCase(st, room, xp) ==
  LET b1 == IF st.sync < 0
            THEN send_rt_message(st.buf, room, 0, MIDI_RT_STOP, 282)
            ELSE st.buf
  IN IF st.sync # 0
     THEN LET r == send_pos_message(b1, room, xp, -1, 286)
          IN IF r.ret < 0 /\ ~NoTransport
             THEN [buf |-> send_rt_message(r.buf, room, 0, MIDI_RT_CONTINUE, 288),
                   sync |-> r.ret]
             ELSE [buf |-> r.buf, sync |-> r.ret]
     ELSE [buf |-> b1, sync |-> -1]

\* faulty variant: a Start at frame 0 leaves the sync target as it is
StartCase_keeps_sync(st, room, xp) ==
  IF m_xstate = JackTransportStarting THEN st
  ELSE IF xp.frame = 0
  THEN IF ~NoTransport
       THEN [buf |-> send_rt_message(st.buf, room, 0, MIDI_RT_START, 303),
             sync |-> st.sync]
       ELSE st
  ELSE IF ~NoTransport /\ NoPosition
       THEN [buf |-> send_rt_message(st.buf, room, 0, MIDI_RT_CONTINUE, 312),
             sync |-> st.sync]
       ELSE st

\* faulty variant: Starting -> Rolling is handled like any other start
StartCase_again(st, room, xp) ==
  IF xp.frame = 0
  THEN IF ~NoTransport
       THEN [buf |-> send_rt_message(st.buf, room, 0, MIDI_RT_START, 303), sync |-> 0]
       ELSE st
  ELSE IF ~NoTransport /\ NoPosition
       THEN [buf |-> send_rt_message(st.buf, room, 0, MIDI_RT_CONTINUE, 312),
             sync |-> st.sync]
       ELSE st

\* faulty variant: the Continue of a start off frame 0 is sent at once, with
\* position messages enabled as well
StartCase_continue_at_once(st, room, xp) ==
  IF m_xstate = JackTransportStarting THEN st
  ELSE IF xp.frame = 0
  THEN IF ~NoTransport
       THEN [buf |-> send_rt_message(st.buf, room, 0, MIDI_RT_START, 303), sync |-> 0]
       ELSE st
  ELSE IF ~NoTransport
       THEN [buf |-> send_rt_message(st.buf, room, 0, MIDI_RT_CONTINUE, 312),
             sync |-> st.sync]
       ELSE st

StartCase(st, room, xp) ==
  IF m_xstate = JackTransportStarting THEN st
  ELSE IF xp.frame = 0
  THEN IF ~NoTransport
       THEN [buf |-> send_rt_message(st.buf, room, 0, MIDI_RT_START, 303), sync |-> 0]
       ELSE st
  ELSE IF ~NoTransport /\ NoPosition
       THEN [buf |-> send_rt_message(st.buf, room, 0, MIDI_RT_CONTINUE, 312),
             sync |-> st.sync]
       ELSE st

StateChange(st, room, xs, xp) ==
  IF xs = JackTransportStopped THEN StopCase(st, room, xp)
  ELSE IF xs = JackTransportRolling /\ m_xstate = JackTransportStarting /\ ~NoPosition
  THEN LocateWhileRollingCase(st, room, xp)
  ELSE StartCase(st, room, xp)

\* faulty variant: the initial beat tick does not look at the transport state
InitialTick_any_state(st, room, xs, xp) ==
  IF xp.frame = 0 \/ NoPosition
  THEN [st EXCEPT !.buf = send_rt_message(st.buf, room, 0, MIDI_RT_CLOCK, 324)]
  ELSE st

\* lines 320-325: initial beat tick
InitialTick(st, room, xs, xp) ==
  IF xs = JackTransportRolling /\ (xp.frame = 0 \/ NoPosition)
  THEN [st EXCEPT !.buf = send_rt_message(st.buf, room, 0, MIDI_RT_CLOCK, 324)]
  ELSE st

(***************************************************************************)
(* process(), lines 335-366: clock tick interval                           *)
(***************************************************************************)
NoTempo == <<0, 0>>

\* faulty variant: a user BPM above zero always comes first
tempo_source_user_first(xp) ==
  IF user_bpm > 0 THEN "user"
  ELSE IF xp.valid THEN "bbt"
  ELSE "none"

\* the tempo source of lines 336-349: "user", "bbt" or "none"
tempo_source(xp) ==
  IF force_bpm /\ user_bpm > 0 THEN "user"
  ELSE IF xp.valid THEN "bbt"
  ELSE IF user_bpm > 0 THEN "user"
  ELSE "none"

samples_per_beat(xp) ==
  CASE tempo_source(xp) = "user" -> Rat(xp.frame_rate * 60, user_bpm)
    [] tempo_source(xp) = "bbt" -> Rat(xp.frame_rate * 60, xp.beats_per_minute)
    [] OTHER -> NoTempo

bbt_offset(xp) == IF tempo_source(xp) = "bbt" THEN xp.bbt_offset ELSE 0

quarter_notes_per_beat(xp) == IF tempo_is_qnpm THEN <<1, 1>> ELSE Rat(xp.beat_type, 4)

\* samples_per_beat / quarter_notes_per_beat / 24.0
clock_tick_interval(xp) ==
  LET spb == samples_per_beat(xp)
      qpb == quarter_notes_per_beat(xp)
  IN Rat(spb[1] * qpb[2], spb[2] * qpb[1] * 24)

(***************************************************************************)
(* process(), lines 369-395: send clock ticks for this cycle.              *)
(* lt is mclk_last_tick, sent is ticks_sent_this_cycle.                    *)
(***************************************************************************)
\* faulty variant: the accumulator keeps a whole frame, the tick rounded up
advance_tick_rounded(last_tick, next_tick) == RatOfInt(-floor(<<-next_tick[1], next_tick[2]>>))

\* line 393: the accumulator moves on to the tick just handled
advance_tick(last_tick, next_tick) == next_tick

\* faulty variant: off by one at the end of the block
past_block_off_by_one(next_tick_offset, n) == next_tick_offset > n

\* line 373: the next tick lies beyond this block
past_block(next_tick_offset, n) == next_tick_offset >= n

\* faulty variant: the target stays armed while transport messages are suppressed
sync_reached_unless_filtered(sync, xp, sent) ==
  /\ sync > 0
  /\ ~NoPosition
  /\ ~NoTransport
  /\ calc_song_pos(xp, 0) + sent \div 4 >= sync

\* lines 377-381: the armed sync target is reached at this tick
sync_reached(sync, xp, sent) ==
  /\ sync > 0
  /\ ~NoPosition
  /\ calc_song_pos(xp, 0) + sent \div 4 >= sync

\* faulty variant: the loop is left at the first Clock the buffer has no room
\* for, the accumulator not advanced
RECURSIVE TickLoop_leaves_when_full(_, _, _, _, _, _, _)
TickLoop_leaves_when_full(lt, sync, sent, buf, room, xp, n) ==
  LET next_tick == RatAdd(lt, clock_tick_interval(xp))
      next_tick_offset == llrint(next_tick) - xp.frame - bbt_offset(xp)
  IN IF past_block(next_tick_offset, n)
     THEN [lt |-> lt, sync |-> sync, buf |-> buf, hung |-> FALSE]
     ELSE IF next_tick_offset >= 0
     THEN LET hit == sync_reached(sync, xp, sent)
              b1 == IF hit /\ ~NoTransport
                    THEN send_rt_message(buf, room, next_tick_offset, MIDI_RT_CONTINUE, 383)
                    ELSE buf
              b2 == send_rt_message(b1, room, next_tick_offset, MIDI_RT_CLOCK, 390)
          IN IF ~b2[Len(b2)].ok
             THEN [lt |-> lt, sync |-> IF hit THEN -1 ELSE sync, buf |-> b2, hung |-> FALSE]
             ELSE TickLoop_leaves_when_full(advance_tick(lt, next_tick),
                                            IF hit THEN -1 ELSE sync,
                                            sent + 1, b2, room, xp, n)
     ELSE IF clock_tick_interval(xp)[1] < 0
     THEN [lt |-> lt, sync |-> sync, buf |-> buf, hung |-> TRUE]
     ELSE TickLoop_leaves_when_full(advance_tick(lt, next_tick), sync, sent + 1, buf,
                                    room, xp, n)

\* The loop ends when a tick lies beyond the block.  With a negative interval
\* the ticks move backwards: once one lies before the block (neither line 373
\* nor line 375 holds) all later ones do, and the loop does not end (hung).
RECURSIVE TickLoop(_, _, _, _, _, _, _)
TickLoop(lt, sync, sent, buf, room, xp, n) ==
  LET next_tick == RatAdd(lt, clock_tick_interval(xp))
      next_tick_offset == llrint(next_tick) - xp.frame - bbt_offset(xp)
  IN IF past_block(next_tick_offset, n)
     THEN [lt |-> lt, sync |-> sync, buf |-> buf, hung |-> FALSE]
     ELSE IF next_tick_offset >= 0
     THEN LET hit == sync_reached(sync, xp, sent)
              b1 == IF hit /\ ~NoTransport
                    THEN send_rt_message(buf, room, next_tick_offset, MIDI_RT_CONTINUE, 383)
                    ELSE buf
              b2 == send_rt_message(b1, room, next_tick_offset, MIDI_RT_CLOCK, 390)
          IN TickLoop(advance_tick(lt, next_tick), IF hit THEN -1 ELSE sync,
                      sent + 1, b2, room, xp, n)
     ELSE IF clock_tick_interval(xp)[1] < 0
     THEN [lt |-> lt, sync |-> sync, buf |-> buf, hung |-> TRUE]
     ELSE TickLoop(advance_tick(lt, next_tick), sync, sent + 1, buf, room, xp, n)

(***************************************************************************)
(* process(): the whole callback on the snapshot (xs, xp), block length n, *)
(* with room for `room` events in the port buffer.  Yields the new         *)
(* application state and the buffer.                                       *)
(***************************************************************************)
\* faulty variant: the accumulator is left where the last rolling block ended
reset_tick_keeps_accumulator(xp) == mclk_last_tick

\* line 327: the accumulator restarts at the transport frame
reset_tick(xp) == RatOfInt(xp.frame)

\* line 340 with beats_per_minute 0: the division yields infinity, and so are
\* clock_tick_interval and next_tick
infinite_interval(xs, xp) ==
  /\ xs = JackTransportRolling
  /\ tempo_source(xp) = "bbt"
  /\ xp.beats_per_minute = 0

\* With an infinite next_tick the result of llrint (line 372) is unspecified.
\* Where it yields a large value (or the subtraction of line 372 wraps to one)
\* the loop ends at once, which is the result given here; where it yields the
\* least int64_t the offset is negative in every iteration and the loop does
\* not end: process, below, takes either outcome.
process_body(xs, xp, n, room) ==
  LET st1 == LocateStep(<<>>, room, xs, xp)
      changed == xs # m_xstate
      st2 == IF changed THEN InitialTick(StateChange(st1, room, xs, xp), room, xs, xp)
             ELSE st1
      lt2 == IF changed THEN reset_tick(xp) ELSE mclk_last_tick
      out == IF xs # JackTransportRolling \/ tempo_source(xp) = "none"
                \/ infinite_interval(xs, xp)
             THEN [lt |-> lt2, sync |-> st2.sync, buf |-> st2.buf, hung |-> FALSE]
             ELSE TickLoop(lt2, st2.sync, 0, st2.buf, room, xp, n)
  IN [m_xstate |-> xs, mclk_last_tick |-> out.lt, song_position_sync |-> out.sync,
      last_xpos |-> remember_pos(last_xpos, xp), port_buf |-> out.buf,
      hung |-> out.hung]

(***************************************************************************)
(* Transport snapshots                                                     *)
(***************************************************************************)
\* without BBT the position fields are not read, but for beat_type
NoBBT == [valid |-> FALSE, bar |-> 0, beat |-> 0, tick |-> 0, beats_per_bar |-> 0,
          ticks_per_beat |-> 0, beats_per_minute |-> 0, beat_type |-> 4,
          bbt_offset |-> 0]

\* a snapshot without valid BBT whose beat_type field holds bt
StaleBBT(bt) == [NoBBT EXCEPT !.beat_type = bt]

BBTInfo ==
  {StaleBBT(bt) : bt \in Env(env).stale_beat_types} \cup
  {[valid |-> TRUE, bar |-> b[1], beat |-> b[2], tick |-> b[3], beats_per_bar |-> 2,
    ticks_per_beat |-> 4] @@ t :
     b \in Env(env).bbts, t \in Env(env).timebases}

\* the frame of the next snapshot: the transport stands still, moves on by the
\* last block, or was relocated
NextFrames ==
  {f \in Env(env).frames : f = xpos.frame \/ f = xpos.frame + nframes \/ f \in Locates}

Snapshots ==
  {[frame |-> f, frame_rate |-> r] @@ i :
     f \in NextFrames, r \in FrameRates, i \in BBTInfo}

\* The block on snapshot (xs, xp) keeps the transport rolling steadily: it rolls
\* with a known tempo and no BBT frame offset and, unless this block resets the
\* accumulator, it carries on where the last block ended, at the same interval.
Steady(xs, xp) ==
  /\ xs = JackTransportRolling
  /\ tempo_source(xp) # "none"
  /\ bbt_offset(xp) = 0
  /\ xs = m_xstate =>
       /\ tick_origin >= 0
       /\ xp.frame = xpos.frame + nframes
       /\ clock_tick_interval(xp) = clock_tick_interval(xpos)

(***************************************************************************)
(* Actions                                                                 *)
(***************************************************************************)
\* faulty variant: the callback goes on after a request to exit
not_running_before_run(cs) == cs = "Init"

\* line 254: the client does not run, before main() reaches line 626 or after
\* a request to exit
not_running(cs) == cs # "Run"

\* the JACK process callback, one block.  Unless the client runs, the callback
\* returns right after clearing the buffer and the snapshot is not looked at.
process ==
  /\ clock_main_pc # "done"
  /\ ~tick_loop_hung
  /\ IF not_running(client_state)
     THEN /\ port_buf' = <<>>
          /\ tick_origin' = -1
          /\ UNCHANGED <<gen_vars, xstate, xpos, nframes, tick_loop_hung, starting_from>>
     ELSE \E xs \in Env(env).states, xp \in Snapshots, n \in Env(env).blocks,
             room \in Env(env).rooms :
            \E r \in {process_body(xs, xp, n, room)} :
               /\ xstate' = xs
               /\ xpos' = xp
               /\ nframes' = n
               /\ m_xstate' = r.m_xstate
               /\ mclk_last_tick' = r.mclk_last_tick
               /\ song_position_sync' = r.song_position_sync
               /\ last_xpos' = r.last_xpos
               /\ tick_loop_hung' \in (IF infinite_interval(xs, xp) THEN BOOLEAN
                                        ELSE {r.hung})
               /\ port_buf' = r.port_buf
               /\ tick_origin' = IF Steady(xs, xp) THEN
                                   IF xs # m_xstate THEN xp.frame ELSE tick_origin
                                 ELSE -1
               /\ starting_from' = IF m_xstate = JackTransportStarting
                                    THEN starting_from
                                    ELSE IF xs = JackTransportStarting
                                    THEN m_xstate
                                    ELSE "none"
  /\ UNCHANGED <<client_state, main_vars, opt_vars, env, dump_vars>>

\* main(), line 621: the pipe that wakes the main thread
wake_main_init ==
  /\ clock_main_pc = "start"
  /\ clock_main_pc' = "go"
  /\ wake_main_pipe' = 0
  /\ UNCHANGED <<gen_vars, client_state, opt_vars, blk_vars, env, dump_vars>>

\* main(), line 626: all systems go
main_run ==
  /\ clock_main_pc = "go"
  /\ clock_main_pc' = "loop"
  /\ client_state' = "Run"
  /\ UNCHANGED <<gen_vars, wake_main_pipe, opt_vars, blk_vars, env, dump_vars>>

\* main(), lines 627-632: leave the loop and clean up when client_state is
\* Exit; otherwise wake_main_wait() reads a byte from the pipe, waiting for it
\* if there is none
main_loop ==
  /\ clock_main_pc = "loop"
  /\ IF client_state = "Exit"
     THEN clock_main_pc' = "done" /\ UNCHANGED wake_main_pipe
     ELSE /\ wake_main_pipe > 0
          /\ wake_main_pipe' = wake_main_pipe - 1
          /\ UNCHANGED clock_main_pc
  /\ UNCHANGED <<gen_vars, client_state, opt_vars, blk_vars, env, dump_vars>>

\* catchsig() / jack_shutdown(): request to exit.  wake_main_now() writes a
\* byte to the pipe; without a pipe the write fails
request_exit ==
  /\ clock_main_pc # "done"
  /\ clock_main_pc = "loop" \/ Env(env).early
  /\ client_state # "Exit"
  /\ client_state' = "Exit"
  /\ wake_main_pipe' = IF wake_main_pipe >= 0 THEN wake_main_pipe + 1 ELSE wake_main_pipe
  /\ UNCHANGED <<gen_vars, clock_main_pc, opt_vars, blk_vars, env, dump_vars>>

\* struct timenfo and struct appstate after memset(0), the DLL as rationals
NoEvent == [msg |-> 0, pos |-> 0, tme |-> 0]

NoDLL == [t0 |-> <<0, 1>>, t1 |-> <<0, 1>>, e2 |-> <<0, 1>>, b |-> <<0, 1>>,
          c |-> <<0, 1>>]

NoState == [pt |-> NoEvent, dll |-> NoDLL, transport |-> 0, sequence |-> 0, bcnt |-> 0]

NoReport == [kind |-> "none"]

\* no timestamp has been fed to the loop in doubles
NoFeed == [n |-> -1]

DllStart ==
  /\ feed = NoFeed
  /\ loop = NoDLL
  /\ loop_ret = NoReport

\* jack_mclk_dump.c at line 466 for the first time: the client is active, the
\* ring buffer is empty, the main thread holds msg_thread_lock
DumpStart ==
  /\ rb = <<>>
  /\ monotonic_cnt = 0
  /\ run = 1
  /\ j_client = "client"
  /\ state = NoState
  /\ jack_buf = <<>>
  /\ in_nframes = 0
  /\ rt_pc = "idle"
  /\ main_pc = "test"
  /\ mqlen = 0
  /\ data_ready = FALSE
  /\ report = NoReport
  /\ enqueued = <<>>
  /\ dequeued = <<>>
  /\ delivered = 0
  /\ DllStart

\* the command lines of an environment
Options(e) ==
  [user_bpm : e.user_bpms, force_bpm : e.force, tempo_is_qnpm : {~x : x \in e.strict},
   msg_filter : e.filters, resync_delay : e.delays]
  \cup
  [user_bpm : e.forced_bpms, force_bpm : {TRUE}, tempo_is_qnpm : {TRUE},
   msg_filter : e.filters, resync_delay : e.delays]

\* the state when main() has registered the signal handlers (line 618), in one
\* of the environments E
InitIn(E) ==
  /\ m_xstate = JackTransportStopped
  /\ mclk_last_tick = <<0, 1>>
  /\ song_position_sync = -1
  /\ last_xpos = [valid |-> FALSE, bar |-> 0, beat |-> 0, tick |-> 0]
  /\ client_state = "Init"
  /\ clock_main_pc = "start"
  /\ wake_main_pipe = -1
  /\ env \in E
  /\ \E o \in Options(Env(env)) :
       /\ user_bpm = o.user_bpm
       /\ force_bpm = o.force_bpm
       /\ tempo_is_qnpm = o.tempo_is_qnpm
       /\ msg_filter = o.msg_filter
       /\ resync_delay = o.resync_delay
  /\ xstate = JackTransportStopped
  /\ xpos = [frame |-> 0, frame_rate |-> 48] @@ NoBBT
  /\ nframes = 0
  /\ port_buf = <<>>
  /\ tick_loop_hung = FALSE
  /\ tick_origin = -1
  /\ starting_from = "none"
  /\ DumpStart

Init == InitIn(Environments)

Next == process \/ wake_main_init \/ main_run \/ main_loop \/ request_exit

Spec == Init /\ [][Next]_vars

\* the generator in EdgeEnv
EdgeInit == InitIn({"edge"})

EdgeSpec == EdgeInit /\ [][Next]_vars

\* the generator in SyncEnv
SyncInit == InitIn({"sync"})

SyncSpec == SyncInit /\ [][Next]_vars

(***************************************************************************)
(* jack_mclk_dump.c                                                        *)
(***************************************************************************)
\* events the ring buffer has room for.  The code asks for RBSIZE (20) events;
\* the model runs with a small ring buffer so that it fills up
MaxQueue == 2
\* MIDI events the port delivers in a run of the decoder
MaxEvents == 4

\* jack_get_sample_rate(), line 198, on the scale of FrameRates
samplerate == 48
\* -b <1/Hz>
dll_bandwidth == 6
\* rationals standing for M_PI and sqrt(2)
M_PI == <<3, 1>>
SQRT2 == <<3, 2>>

RatMul(p, q) == Rat(p[1] * q[1], p[2] * q[2])

\* p + q and p - q over the least common denominator
RatSum(p, q) ==
  LET l == (p[2] \div GCD(p[2], q[2])) * q[2]
  IN Rat(p[1] * (l \div p[2]) + q[1] * (l \div q[2]), l)

RatSub(p, q) == RatSum(p, <<-q[1], q[2]>>)

\* a | b on non-negative integers
RECURSIVE BitOr(_, _)
BitOr(a, b) ==
  IF a = 0 THEN b
  ELSE IF b = 0 THEN a
  ELSE (IF a % 2 = 1 \/ b % 2 = 1 THEN 1 ELSE 0) + 2 * BitOr(a \div 2, b \div 2)

(***************************************************************************)
(* process_jmidi_event(), lines 98-117.  ev is a MIDI event of the port:   *)
(* time and data, the bytes of the message (data[1] is buffer[0]).         *)
(***************************************************************************)
\* faulty variant: the two data bytes taken the other way round
song_position_swapped(buffer) == BitOr(buffer[2] * 128, buffer[3])

\* line 105: (ev->buffer[2] << 7) | ev->buffer[1]
song_position(buffer) == BitOr(buffer[3] * 128, buffer[2])

\* line 101: the sizes that pass
size_ok(ev) ==
  Len(ev.data) = 1 \/ (Len(ev.data) = 3 /\ ev.data[1] = MIDI_SONG_POS)

\* lines 103-114: the status bytes that pass
status_ok(ev) ==
  ev.data[1] \in {MIDI_SONG_POS, MIDI_RT_CLOCK, MIDI_RT_START, MIDI_RT_CONTINUE,
                  MIDI_RT_STOP}

\* the event reads bytes that lie behind the message
reads_beyond(ev) == size_ok(ev) /\ ev.data[1] = MIDI_SONG_POS /\ Len(ev.data) < 3

\* faulty variant: the time stamp is the offset in the block
timenfo_block_time(ev, mfcnt, stray) ==
  [msg |-> ev.data[1],
   pos |-> IF ev.data[1] = MIDI_SONG_POS THEN song_position(ev.data \o stray) ELSE 0,
   tme |-> ev.time]

\* lines 100-117: the timenfo of an event that passes.  stray are the bytes the
\* port buffer holds behind the message
timenfo(ev, mfcnt, stray) ==
  [msg |-> ev.data[1],
   pos |-> IF ev.data[1] = MIDI_SONG_POS THEN song_position(ev.data \o stray) ELSE 0,
   tme |-> mfcnt + ev.time]

\* faulty variant: the ring buffer is written when it is full, over the oldest event
jack_ringbuffer_write_over(q, t) ==
  IF Len(q) < MaxQueue THEN Append(q, t) ELSE Append(Tail(q), t)

\* lines 121-123: written only if there is room for a whole event
jack_ringbuffer_write(q, t) ==
  IF MaxQueue - Len(q) >= 1 THEN Append(q, t) ELSE q

(***************************************************************************)
(* The delay locked loop, lines 221-242                                    *)
(***************************************************************************)
\* init_dll(): set current time and period in samples
init_dll(dll, tme, period) ==
  LET omega == RatMul(RatMul(<<2, 1>>, M_PI), Rat(period, dll_bandwidth * samplerate))
      e2 == Rat(period, samplerate)
      t0 == Rat(tme, samplerate)
  IN [b |-> RatMul(SQRT2, omega), c |-> RatMul(omega, omega),
      e2 |-> e2, t0 |-> t0, t1 |-> RatSum(t0, e2)]

\* faulty variant: the iteration also adapts the coefficient c to the error
run_dll_adapts_c(dll, tme) ==
  LET e == RatSub(Rat(tme, samplerate), dll.t1)
      t1 == RatSum(dll.t1, RatSum(RatMul(dll.b, e), dll.e2))
  IN [dll |-> [dll EXCEPT !.t0 = dll.t1, !.t1 = t1,
                          !.e2 = RatSum(dll.e2, RatMul(dll.c, e)),
                          !.c = RatSum(dll.c, RatMul(e, e))],
      period |-> RatSub(t1, dll.t1)]

\* run_dll(): one loop iteration; yields the loop and the smoothed period
run_dll(dll, tme) ==
  LET e == RatSub(Rat(tme, samplerate), dll.t1)
      t1 == RatSum(dll.t1, RatSum(RatMul(dll.b, e), dll.e2))
  IN [dll |-> [dll EXCEPT !.t0 = dll.t1, !.t1 = t1,
                          !.e2 = RatSum(dll.e2, RatMul(dll.c, e))],
      period |-> RatSub(t1, dll.t1)]

(***************************************************************************)
(* print_time_event(), lines 276-350                                       *)
(***************************************************************************)
\* a BPM that is not known (printed ??), and the quotient by zero
Unknown == <<0, 0>>
Infinite == <<1, 0>>

\* x / y for rationals, as the double division gives it
Quotient(x, y) == IF y[1] = 0 THEN Infinite ELSE Rat(x[1] * y[2], x[2] * y[1])

IsTransport(msg) == msg \in {MIDI_RT_START, MIDI_RT_CONTINUE, MIDI_RT_STOP}

\* faulty variant: a Stop leaves the sequence counter alone
sequence_after_keeps_on_stop(s, t) ==
  IF t.msg = MIDI_RT_STOP THEN s.sequence
  ELSE IF IsTransport(t.msg) THEN 0
  ELSE IF t.msg = MIDI_RT_CLOCK THEN s.sequence + 1
  ELSE s.sequence

\* lines 300 and 348: the sequence counter after the event
sequence_after(s, t) ==
  IF IsTransport(t.msg) THEN 0
  ELSE IF t.msg = MIDI_RT_CLOCK THEN s.sequence + 1
  ELSE s.sequence

\* faulty variant: the DLL is initialized on the first Clock already
dll_after_early(s, t) ==
  IF t.msg = MIDI_SONG_POS \/ IsTransport(t.msg) THEN s.dll
  ELSE IF s.sequence <= 1 THEN init_dll(s.dll, t.tme, t.tme - s.pt.tme)
  ELSE run_dll(s.dll, t.tme).dll

\* lines 313-321: the DLL after the event
dll_after(s, t) ==
  IF t.msg = MIDI_SONG_POS \/ IsTransport(t.msg) THEN s.dll
  ELSE IF s.sequence = 1 THEN init_dll(s.dll, t.tme, t.tme - s.pt.tme)
  ELSE IF s.sequence > 1 THEN run_dll(s.dll, t.tme).dll
  ELSE s.dll

\* faulty variant: the filtered BPM is left at 0 when the DLL is initialized
flt_bpm_unset_at_init(s, t) ==
  IF t.msg = MIDI_SONG_POS \/ IsTransport(t.msg) THEN <<0, 1>>
  ELSE IF s.sequence > 1
  THEN Quotient(<<60, 1>>, RatMul(<<24, 1>>, run_dll(s.dll, t.tme).period))
  ELSE <<0, 1>>

\* lines 277, 316 and 320: flt_bpm
flt_bpm(s, t) ==
  IF t.msg = MIDI_SONG_POS \/ IsTransport(t.msg) THEN <<0, 1>>
  ELSE IF s.sequence = 1
  THEN Quotient(<<samplerate * 60, 1>>, <<24 * (t.tme - s.pt.tme), 1>>)
  ELSE IF s.sequence > 1
  THEN Quotient(<<60, 1>>, RatMul(<<24, 1>>, run_dll(s.dll, t.tme).period))
  ELSE <<0, 1>>

\* lines 283-344: what is printed
printed(s, t) ==
  IF t.msg = MIDI_SONG_POS THEN [kind |-> "POS", pos |-> t.pos, tme |-> t.tme]
  ELSE IF IsTransport(t.msg) THEN [kind |-> "EVENT", msg |-> t.msg, tme |-> t.tme]
  ELSE IF t.msg = MIDI_RT_CLOCK /\ s.sequence > 0
  THEN [kind |-> "CLK",
        cur |-> Quotient(<<samplerate * 60, 1>>, <<(t.tme - s.pt.tme) * 24, 1>>),
        flt |-> flt_bpm(s, t),
        dt |-> t.tme - s.pt.tme,
        bp |-> IF s.transport # 0 THEN s.bcnt + s.sequence \div 6 ELSE -1,
        tme |-> t.tme]
  ELSE IF t.msg = MIDI_RT_CLOCK
  THEN [kind |-> "CLK", cur |-> Unknown, flt |-> Unknown, dt |-> -1, bp |-> -1,
        tme |-> t.tme]
  ELSE NoReport

\* faulty variant: every event is remembered as the previous one
print_time_event_remembers_all(s, t) ==
  [pt |-> t,
   dll |-> dll_after(s, t),
   transport |-> IF t.msg = MIDI_RT_STOP THEN 0
                 ELSE IF IsTransport(t.msg) THEN t.tme
                 ELSE s.transport,
   sequence |-> sequence_after(s, t),
   bcnt |-> IF t.msg = MIDI_SONG_POS THEN t.pos
            ELSE IF t.msg = MIDI_RT_START THEN 0
            ELSE s.bcnt]

\* the application state after the event
print_time_event(s, t) ==
  [pt |-> IF t.msg = MIDI_RT_CLOCK THEN t ELSE s.pt,
   dll |-> dll_after(s, t),
   transport |-> IF t.msg = MIDI_RT_STOP THEN 0
                 ELSE IF IsTransport(t.msg) THEN t.tme
                 ELSE s.transport,
   sequence |-> sequence_after(s, t),
   bcnt |-> IF t.msg = MIDI_SONG_POS THEN t.pos
            ELSE IF t.msg = MIDI_RT_START THEN 0
            ELSE s.bcnt]

(***************************************************************************)
(* What the input port delivers.  The decoder runs in six environments.    *)
(*   "stream"   the messages of a beat clock, one a block, at either frame *)
(*              of the block                                               *)
(*   "resync"   a longer stream of Clock and Stop, one a block at frame 0  *)
(*   "burst"    blocks of up to MaxQueue + 1 events                        *)
(*   "filter"   messages of any kind                                       *)
(*   "songpos"  what the generator's send_pos_message() writes for a       *)
(*              transport position                                         *)
(*   "shutdown" Clock messages, while signals and the server ask to stop   *)
(***************************************************************************)
DumpEnvironments == {"stream", "resync", "burst", "filter", "songpos", "shutdown"}

StreamMessages ==
  {<<MIDI_RT_CLOCK>>, <<MIDI_RT_START>>, <<MIDI_RT_CONTINUE>>, <<MIDI_RT_STOP>>,
   <<MIDI_SONG_POS, 5, 1>>}

\* other messages: a song position without data bytes, active sensing, a note
\* on, and a Clock status with one and with two bytes behind it
OtherMessages ==
  {<<MIDI_SONG_POS>>, <<254>>, <<144, 60, 100>>, <<MIDI_RT_CLOCK, 0>>,
   <<MIDI_RT_CLOCK, 0, 0>>}

\* the events a block may carry: the frame within the block and the message
At(t, M) == [time : t, data : M]

DumpEnv(e) ==
  CASE e = "stream" ->
         [events |-> At({0, 1}, {<<MIDI_RT_CLOCK>>}) \cup At({0}, StreamMessages),
          per_block |-> 1, budget |-> MaxEvents, stops |-> FALSE]
    [] e = "resync" ->
         [events |-> At({0}, {<<MIDI_RT_CLOCK>>, <<MIDI_RT_STOP>>}),
          per_block |-> 1, budget |-> MaxEvents + 3, stops |-> FALSE]
    [] e = "burst" ->
         [events |-> At({0}, {<<MIDI_RT_CLOCK>>, <<MIDI_RT_STOP>>}),
          per_block |-> MaxQueue + 1, budget |-> MaxQueue + 2, stops |-> FALSE]
    [] e = "filter" ->
         [events |-> At({0}, {<<MIDI_RT_CLOCK>>, <<MIDI_SONG_POS, 5, 1>>} \cup OtherMessages),
          per_block |-> 1, budget |-> MaxEvents \div 2, stops |-> FALSE]
    [] e = "shutdown" ->
         [events |-> At({0}, {<<MIDI_RT_CLOCK>>}),
          per_block |-> 1, budget |-> MaxEvents \div 2, stops |-> TRUE]
    [] OTHER ->
         [events |-> {}, per_block |-> 1, budget |-> MaxEvents \div 2, stops |-> FALSE]

\* what the port buffer may hold behind a message that ends the buffer's data
StrayBytes == {<<0, 0>>, <<255, 1>>}

\* the blocks an environment delivers when k events are left of its budget:
\* 1 to per_block events in time order (JACK keeps the events of a port buffer
\* sorted by time)
MidiBlocks(e, k) ==
  LET E == DumpEnv(e).events
      L == IF k < DumpEnv(e).per_block THEN k ELSE DumpEnv(e).per_block
  IN UNION {{b \in [1..m -> E] : \A i \in 1..(m - 1) : b[i].time <= b[i + 1].time} :
              m \in 1..L}

\* transport positions for the generator's position message: bar 0 lies
\* before the song, bars 2048 and 2049 around the end of the 14 bit range
PosSnapshots ==
  {[frame |-> 0, frame_rate |-> 48] @@ NoBBT} \cup
  {[frame |-> 0, frame_rate |-> 48, valid |-> TRUE, bar |-> b, beat |-> bt, tick |-> t,
    beats_per_bar |-> 2, ticks_per_beat |-> 4] @@ Timebase(120, 4, 0) :
     b \in {0, 1, 17, 2048, 2049}, bt \in {1, 2}, t \in {0, 3}}

\* the event the decoder's port receives for an event the generator wrote
Received(buf) == [i \in 1..Len(Written(buf)) |->
                    [time |-> Written(buf)[i].time, data |-> Written(buf)[i].data]]

\* A delivery: the block, and for "songpos" the generator's side of it (its
\* snapshot, its port buffer and the value send_pos_message() returned, which
\* the callers assign to song_position_sync: lines 261, 273, 286)
PosDelivery(xp) ==
  LET r == send_pos_message(<<>>, AmpleRoom, xp, -1, 261)
  IN [xp |-> xp, buf |-> r.buf, ret |-> r.ret, blk |-> Received(r.buf), cost |-> 1]

Deliveries ==
  IF env = "songpos"
  THEN {PosDelivery(xp) : xp \in {x \in PosSnapshots : delivered < DumpEnv(env).budget}}
  ELSE {[xp |-> xpos, buf |-> port_buf, ret |-> song_position_sync, blk |-> b,
         cost |-> Len(b)] :
          b \in MidiBlocks(env, DumpEnv(env).budget - delivered)}

(***************************************************************************)
(* The real-time thread: process(), lines 135-147                          *)
(***************************************************************************)
dump_frozen == <<m_xstate, mclk_last_tick, last_xpos, client_state, main_vars, opt_vars,
                 xstate, nframes, tick_loop_hung, tick_origin, starting_from, env,
                 dll_vars>>

\* JACK calls process() with the next block of the port
mclk_dump_process ==
  /\ rt_pc = "idle"
  /\ j_client = "client"
  /\ \E n \in {MaxBlock - 1} : \E d \in Deliveries :
       /\ in_nframes' = n
       /\ xpos' = d.xp
       /\ port_buf' = d.buf
       /\ song_position_sync' = d.ret
       /\ delivered' = delivered + d.cost
       /\ jack_buf' = d.blk
       /\ IF d.blk = <<>>
          THEN rt_pc' = "idle" /\ monotonic_cnt' = monotonic_cnt + n
          ELSE rt_pc' = "event" /\ UNCHANGED monotonic_cnt
  /\ UNCHANGED <<dump_frozen, rb, run, j_client, state, main_pc, mqlen, data_ready,
                 report, enqueued, dequeued>>

\* lines 140-146: on to the next event of the block, or the end of process()
NextEvent ==
  /\ jack_buf' = Tail(jack_buf)
  /\ IF Tail(jack_buf) = <<>>
     THEN rt_pc' = "idle" /\ monotonic_cnt' = monotonic_cnt + in_nframes
     ELSE rt_pc' = "event" /\ UNCHANGED monotonic_cnt

\* process_jmidi_event(), lines 98-123: parse the event and write it to the
\* ring buffer
process_jmidi_event ==
  /\ rt_pc = "event"
  /\ LET ev == Head(jack_buf)
     IN IF size_ok(ev) /\ status_ok(ev)
        THEN \E stray \in (IF reads_beyond(ev) THEN StrayBytes ELSE {<<>>}) :
               \E t \in {timenfo(ev, monotonic_cnt, stray)} :
                 /\ rb' = jack_ringbuffer_write(rb, t)
                 /\ enqueued' = IF rb' # rb THEN Append(enqueued, t) ELSE enqueued
                 /\ rt_pc' = "signal"
                 /\ UNCHANGED <<jack_buf, monotonic_cnt>>
        ELSE /\ NextEvent
             /\ UNCHANGED <<rb, enqueued>>
  /\ UNCHANGED <<gen_vars, dump_frozen, xpos, port_buf, run, j_client, state, in_nframes,
                 main_pc, mqlen, data_ready, report, dequeued, delivered>>

\* process_jmidi_event(), lines 125-128.  The main thread holds msg_thread_lock
\* except inside pthread_cond_wait, so the trylock succeeds only while it waits
signal_data_ready ==
  /\ rt_pc = "signal"
  /\ data_ready' = (data_ready \/ main_pc = "wait")
  /\ NextEvent
  /\ UNCHANGED <<gen_vars, dump_frozen, xpos, port_buf, rb, run, j_client, state,
                 in_nframes, main_pc, mqlen, report, enqueued, dequeued, delivered>>

(***************************************************************************)
(* The main thread, lines 466-480                                          *)
(***************************************************************************)
\* lines 466-467: the loop test and the number of events to read; or the
\* end of the loop, line 477, and cleanup()
main_loop_test ==
  /\ main_pc = "test"
  /\ IF run = 1 /\ j_client = "client"
     THEN /\ mqlen' = Len(rb)
          /\ main_pc' = "read"
          /\ UNCHANGED j_client
     ELSE /\ main_pc' = "done"
          /\ j_client' = "NULL"
          /\ UNCHANGED mqlen
  /\ UNCHANGED <<gen_vars, dump_frozen, xpos, port_buf, rb, monotonic_cnt, run, state,
                 jack_buf, in_nframes, rt_pc, data_ready, report, enqueued, dequeued,
                 delivered>>

\* lines 468-473: read one event and report it
main_read_event ==
  /\ main_pc = "read"
  /\ mqlen > 0
  /\ rb' = Tail(rb)
  /\ state' = print_time_event(state, Head(rb))
  /\ report' = printed(state, Head(rb))
  /\ dequeued' = Append(dequeued, Head(rb))
  /\ mqlen' = mqlen - 1
  /\ UNCHANGED <<gen_vars, dump_frozen, xpos, port_buf, monotonic_cnt, run, j_client,
                 jack_buf, in_nframes, rt_pc, main_pc, data_ready, enqueued, delivered>>

\* lines 474-475: all read, wait for data_ready
main_cond_wait ==
  /\ main_pc = "read"
  /\ mqlen = 0
  /\ main_pc' = "wait"
  /\ data_ready' = FALSE
  /\ UNCHANGED <<gen_vars, dump_frozen, xpos, port_buf, rb, monotonic_cnt, run, j_client,
                 state, jack_buf, in_nframes, rt_pc, mqlen, report, enqueued, dequeued,
                 delivered>>

\* pthread_cond_wait returns
main_wakeup ==
  /\ main_pc = "wait"
  /\ data_ready
  /\ main_pc' = "test"
  /\ data_ready' = FALSE
  /\ UNCHANGED <<gen_vars, dump_frozen, xpos, port_buf, rb, monotonic_cnt, run, j_client,
                 state, jack_buf, in_nframes, rt_pc, mqlen, report, enqueued, dequeued,
                 delivered>>

(***************************************************************************)
(* Requests to stop                                                        *)
(***************************************************************************)
\* the signal handler, lines 356-360
wearedone ==
  /\ DumpEnv(env).stops
  /\ main_pc # "done"
  /\ run' = 0
  /\ data_ready' = (data_ready \/ main_pc = "wait")
  /\ UNCHANGED <<gen_vars, dump_frozen, xpos, port_buf, rb, monotonic_cnt, j_client,
                 state, jack_buf, in_nframes, rt_pc, main_pc, mqlen, report, enqueued,
                 dequeued, delivered>>

\* callback if the jack server terminates, lines 152-156
jack_shutdown ==
  /\ DumpEnv(env).stops
  /\ j_client = "client"
  /\ j_client' = "NULL"
  /\ data_ready' = (data_ready \/ main_pc = "wait")
  /\ UNCHANGED <<gen_vars, dump_frozen, xpos, port_buf, rb, monotonic_cnt, run, state,
                 jack_buf, in_nframes, rt_pc, main_pc, mqlen, report, enqueued, dequeued,
                 delivered>>

DumpInit ==
  /\ m_xstate = JackTransportStopped
  /\ mclk_last_tick = <<0, 1>>
  /\ song_position_sync = -1
  /\ last_xpos = [valid |-> FALSE, bar |-> 0, beat |-> 0, tick |-> 0]
  /\ client_state = "Init"
  /\ clock_main_pc = "start"
  /\ wake_main_pipe = -1
  /\ env \in DumpEnvironments
  /\ user_bpm = 0
  /\ force_bpm = FALSE
  /\ tempo_is_qnpm = TRUE
  /\ msg_filter = 0
  /\ resync_delay \in ResyncDelays
  /\ xstate = JackTransportStopped
  /\ xpos = [frame |-> 0, frame_rate |-> 48] @@ NoBBT
  /\ nframes = 0
  /\ port_buf = <<>>
  /\ tick_loop_hung = FALSE
  /\ tick_origin = -1
  /\ starting_from = "none"
  /\ DumpStart

DumpNext ==
  \/ mclk_dump_process
  \/ process_jmidi_event
  \/ signal_data_ready
  \/ main_loop_test
  \/ main_read_event
  \/ main_cond_wait
  \/ main_wakeup
  \/ wearedone
  \/ jack_shutdown

DumpSpec == DumpInit /\ [][DumpNext]_vars

(***************************************************************************)
(* IEEE-754 binary64, the double of the C code, bit for bit.  A natural    *)
(* number of any size is a sequence of limbs to the base 2^15, the least   *)
(* significant first and the most significant not 0; <<>> is 0.            *)
(***************************************************************************)
Limb == 2^15

BigOfInt(n) ==
  IF n = 0 THEN <<>>
  ELSE IF n < Limb THEN <<n>>
  ELSE IF n < Limb * Limb THEN <<n % Limb, n \div Limb>>
  ELSE <<n % Limb, (n \div Limb) % Limb, n \div (Limb * Limb)>>

RECURSIVE BigNorm(_)
BigNorm(a) ==
  IF a = <<>> THEN a
  ELSE IF a[Len(a)] = 0 THEN BigNorm(SubSeq(a, 1, Len(a) - 1))
  ELSE a

\* a + b + carry
RECURSIVE BigAddC(_, _, _)
BigAddC(a, b, carry) ==
  IF a = <<>> /\ b = <<>> THEN BigOfInt(carry)
  ELSE LET s == (IF a = <<>> THEN 0 ELSE a[1]) + (IF b = <<>> THEN 0 ELSE b[1]) + carry
       IN <<s % Limb>> \o BigAddC(IF a = <<>> THEN a ELSE Tail(a),
                                  IF b = <<>> THEN b ELSE Tail(b), s \div Limb)

BigAdd(a, b) == BigAddC(a, b, 0)

\* a - b - borrow, limb by limb, for a >= b + borrow
RECURSIVE BigSubB(_, _, _)
BigSubB(a, b, borrow) ==
  IF a = <<>> THEN <<>>
  ELSE LET d == a[1] - (IF b = <<>> THEN 0 ELSE b[1]) - borrow
       IN <<d % Limb>> \o BigSubB(Tail(a), IF b = <<>> THEN b ELSE Tail(b),
                                  IF d < 0 THEN 1 ELSE 0)

BigSub(a, b) == BigNorm(BigSubB(a, b, 0))

\* a < b
RECURSIVE BigLess(_, _)
BigLess(a, b) ==
  IF Len(a) # Len(b) THEN Len(a) < Len(b)
  ELSE IF a = <<>> THEN FALSE
  ELSE IF a[Len(a)] # b[Len(b)] THEN a[Len(a)] < b[Len(b)]
  ELSE BigLess(BigNorm(SubSeq(a, 1, Len(a) - 1)), BigNorm(SubSeq(b, 1, Len(b) - 1)))

\* a * d + carry for a limb d
RECURSIVE BigMulSmall(_, _, _)
BigMulSmall(a, d, carry) ==
  IF a = <<>> THEN BigOfInt(carry)
  ELSE LET p == a[1] * d + carry
       IN <<p % Limb>> \o BigMulSmall(Tail(a), d, p \div Limb)

RECURSIVE BigMul(_, _)
BigMul(a, b) ==
  IF a = <<>> \/ b = <<>> THEN <<>>
  ELSE BigNorm(BigAdd(BigMulSmall(a, b[1], 0), <<0>> \o BigMul(a, Tail(b))))

\* the number of bits of a limb, and of a
RECURSIVE LimbBits(_)
LimbBits(d) == IF d = 0 THEN 0 ELSE 1 + LimbBits(d \div 2)

BigBits(a) == IF a = <<>> THEN 0 ELSE 15 * (Len(a) - 1) + LimbBits(a[Len(a)])

\* a * 2^k
BigShl(a, k) ==
  IF a = <<>> THEN a
  ELSE [i \in 1..(k \div 15) |-> 0] \o BigNorm(BigMulSmall(a, 2^(k % 15), 0))

\* floor(a / 2^k)
BigShr(a, k) ==
  LET q == k \div 15
      r == k % 15
      h == IF q >= Len(a) THEN <<>> ELSE SubSeq(a, q + 1, Len(a))
  IN BigNorm([i \in 1..Len(h) |->
                (h[i] \div 2^r) + (IF i < Len(h) THEN (h[i + 1] % 2^r) * 2^(15 - r) ELSE 0)])

\* bit i of a, bit 0 the least significant
BigBit(a, i) == IF i \div 15 >= Len(a) THEN 0 ELSE (a[i \div 15 + 1] \div 2^(i % 15)) % 2

\* the bits of a below bit k are all 0
BigLowZero(a, k) == a = BigShl(BigShr(a, k), k)

\* the largest limb d with b * d <= r, for r < b * Limb: its bits from bit k down
RECURSIVE QuotientLimb(_, _, _, _)
QuotientLimb(r, b, k, d) ==
  IF k < 0 THEN d
  ELSE IF BigLess(r, BigMulSmall(b, d + 2^k, 0)) THEN QuotientLimb(r, b, k - 1, d)
  ELSE QuotientLimb(r, b, k - 1, d + 2^k)

\* quotient and remainder of a by b > 0: long division, the limbs above the
\* least significant one first
RECURSIVE BigDivMod(_, _)
BigDivMod(a, b) ==
  IF a = <<>> THEN [q |-> <<>>, r |-> <<>>]
  ELSE LET p == BigDivMod(Tail(a), b)
           r2 == BigNorm(<<a[1]>> \o p.r)
           d == QuotientLimb(r2, b, 14, 0)
       IN [q |-> BigNorm(<<d>> \o p.q), r |-> BigSub(r2, BigMulSmall(b, d, 0))]

\* A double is its value (-1)^neg * m * 2^x with 2^52 <= m < 2^53, or Zero.
\* The values of the DLL stay far from the ends of the exponent range: there are
\* no subnormal numbers, infinities or NaNs.
DBL_MANT_DIG == 53

Zero == [neg |-> FALSE, m |-> <<>>, x |-> 0]

\* round to nearest, ties to even: the double next to (m + s) * 2^x, where
\* 0 < s < 1 if sticky and s = 0 otherwise, and m has more than DBL_MANT_DIG
\* bits if sticky
RoundDouble(neg, m, x, sticky) ==
  LET n == BigBits(m)
      k == n - DBL_MANT_DIG
  IN IF m = <<>> THEN Zero
     ELSE IF k <= 0 THEN [neg |-> neg, m |-> BigShl(m, -k), x |-> x + k]
     ELSE LET q == BigShr(m, k)
              half == BigBit(m, k - 1) = 1
              rest == sticky \/ ~BigLowZero(m, k - 1)
              up == half /\ (rest \/ BigBit(q, 0) = 1)
              q2 == IF up THEN BigAdd(q, <<1>>) ELSE q
          IN IF BigBits(q2) > DBL_MANT_DIG
             THEN [neg |-> neg, m |-> BigShr(q2, 1), x |-> x + k + 1]
             ELSE [neg |-> neg, m |-> q2, x |-> x + k]

\* the double of an integer below 2^45 in absolute value (exact)
DoubleOfInt(i) == RoundDouble(i < 0, BigOfInt(IF i < 0 THEN -i ELSE i), 0, FALSE)

DNeg(a) == IF a = Zero THEN a ELSE [a EXCEPT !.neg = ~a.neg]

\* a + b
DAdd(a, b) ==
  IF a = Zero THEN b
  ELSE IF b = Zero THEN a
  ELSE LET x == IF a.x < b.x THEN a.x ELSE b.x
           ma == BigShl(a.m, a.x - x)
           mb == BigShl(b.m, b.x - x)
       IN IF a.neg = b.neg THEN RoundDouble(a.neg, BigAdd(ma, mb), x, FALSE)
          ELSE IF ma = mb THEN Zero
          ELSE IF BigLess(ma, mb) THEN RoundDouble(b.neg, BigSub(mb, ma), x, FALSE)
          ELSE RoundDouble(a.neg, BigSub(ma, mb), x, FALSE)

\* a - b
DSub(a, b) == DAdd(a, DNeg(b))

\* a * b
DMul(a, b) ==
  IF a = Zero \/ b = Zero THEN Zero
  ELSE RoundDouble(a.neg # b.neg, BigMul(a.m, b.m), a.x + b.x, FALSE)

\* a / b for b # 0: a quotient of 55 bits or more, and whether there is a remainder
DDiv(a, b) ==
  IF b # Zero /\ a = Zero THEN Zero
  ELSE LET d == BigDivMod(BigShl(a.m, DBL_MANT_DIG + 2), b.m)
       IN RoundDouble(a.neg # b.neg, d.q, a.x - (DBL_MANT_DIG + 2) - b.x, d.r # <<>>)

(***************************************************************************)
(* The delay locked loop in doubles: init_dll() and run_dll(), lines       *)
(* 221-242, operation by operation in the order of the C expressions.      *)
(***************************************************************************)
\* M_PI of <math.h>, 0x1.921fb54442d18p+1, and the constant of line 223,
\* 1.4142135623730950488, as the compiler rounds it: 0x1.6a09e667f3bcdp+0
M_PI_double == [neg |-> FALSE, m |-> <<11544, 10376, 2029, 201>>, x |-> -51]
SQRT2_double == [neg |-> FALSE, m |-> <<15309, 19710, 633, 181>>, x |-> -52]

\* init_dll() with the sample rate and the bandwidth of the run
init_dll_double(tme, period, rate, bandwidth) ==
  LET omega == DDiv(DDiv(DMul(DMul(DoubleOfInt(2), M_PI_double), DoubleOfInt(period)),
                         bandwidth), DoubleOfInt(rate))
      e2 == DDiv(DoubleOfInt(period), DoubleOfInt(rate))
      t0 == DDiv(DoubleOfInt(tme), DoubleOfInt(rate))
  IN [b |-> DMul(SQRT2_double, omega), c |-> DMul(omega, omega),
      e2 |-> e2, t0 |-> t0, t1 |-> DAdd(t0, e2)]

\* faulty variant: the iteration adds the correction but not the period
run_dll_double_correction_only(dll, tme, rate) ==
  LET e == DSub(DDiv(DoubleOfInt(tme), DoubleOfInt(rate)), dll.t1)
      t1 == DAdd(dll.t1, DMul(dll.b, e))
  IN [dll |-> [dll EXCEPT !.t0 = dll.t1, !.t1 = t1, !.e2 = DAdd(dll.e2, DMul(dll.c, e))],
      period |-> DSub(t1, dll.t1), e |-> e]

\* run_dll(): the loop after the iteration, the period returned and the error e
run_dll_double(dll, tme, rate) ==
  LET e == DSub(DDiv(DoubleOfInt(tme), DoubleOfInt(rate)), dll.t1)
      t1 == DAdd(dll.t1, DAdd(DMul(dll.b, e), dll.e2))
  IN [dll |-> [dll EXCEPT !.t0 = dll.t1, !.t1 = t1, !.e2 = DAdd(dll.e2, DMul(dll.c, e))],
      period |-> DSub(t1, dll.t1), e |-> e]

(***************************************************************************)
(* The loop on its own: it is initialized at a timestamp with a period and *)
(* then fed one timestamp after the other, each a period after the last    *)
(* one or a frame late.                                                    *)
(***************************************************************************)
\* updates of the loop in a run
MaxUpdates == 4

\* first timestamps and periods, in frames; 375 frames are 1/128 s at 48000 Hz
FeedStarts == {0, 375, 1000}
FeedPeriods == {375, 1000}
\* jack_get_sample_rate()
FeedRates == {48000}
\* -b <1/Hz>: the bounds of line 409 and the default, as fractions
Bandwidths == {<<1, 10>>, <<6, 1>>, <<100, 1>>}
\* frames a timestamp comes late
Jitter == {0, 1}

\* atof() of the fraction
DoubleOfRatio(q) == DDiv(DoubleOfInt(q[1]), DoubleOfInt(q[2]))

dll_frozen == <<gen_vars, client_state, main_vars, opt_vars, blk_vars, env, rb,
                monotonic_cnt, run, j_client, state, jack_buf, in_nframes, rt_pc, main_pc,
                mqlen, data_ready, report, enqueued, dequeued, delivered>>

\* init_dll() at the timestamp T with the period P
dll_init ==
  /\ feed = NoFeed
  /\ \E T \in FeedStarts, P \in FeedPeriods, r \in FeedRates, bw \in Bandwidths :
       /\ feed' = [n |-> 0, start |-> T, period |-> P, rate |-> r, bandwidth |-> bw,
                   tme |-> T, even |-> TRUE]
       /\ loop' = init_dll_double(T, P, r, DoubleOfRatio(bw))
  /\ UNCHANGED <<loop_ret, dll_frozen>>

\* run_dll() with the next timestamp; even says that all timestamps so far
\* were a period apart
dll_run ==
  /\ feed # NoFeed
  /\ feed.n < MaxUpdates
  /\ \E j \in Jitter :
       \E r \in {run_dll_double(loop, feed.tme + feed.period + j, feed.rate)} :
         /\ loop' = r.dll
         /\ loop_ret' = [period |-> r.period, e |-> r.e]
         /\ feed' = [feed EXCEPT !.n = @ + 1, !.tme = @ + feed.period + j,
                                 !.even = @ /\ j = 0]
  /\ UNCHANGED dll_frozen

DllInit == EdgeInit

DllNext == dll_init \/ dll_run

DllSpec == DllInit /\ [][DllNext]_vars

(***************************************************************************)
(* Reading the port buffer                                                 *)
(***************************************************************************)
\* the status byte of an event
Status(e) == e.data[1]

\* the events of buf with status byte m
Msgs(buf, m) == SelectSeq(buf, LAMBDA e : Status(e) = m)

\* the events of buf reserved at source line l
AtLine(buf, l) == SelectSeq(buf, LAMBDA e : e.line = l)

\* every reservation of the block succeeded
AllOk(buf) == \A i \in 1..Len(buf) : buf[i].ok

\* Start, Continue and Stop messages of the state-change handling (lines 267-318)
TransitionMsgs(buf) ==
  SelectSeq(buf, LAMBDA e : e.line \in {271, 282, 288, 303, 312})

\* a step of process() while the client runs
RunStep == client_state = "Run" /\ client_state' = "Run"

(***************************************************************************)
(* C1                                                                      *)
(***************************************************************************)
\* the k-th point of the tick grid that starts at frame f with interval iv
GridPoint(f, iv, k) == llrint(RatAdd(RatOfInt(f), RatScale(k, iv)))

\* the grid points that fall into the block [frame, frame + n), in order
GridInBlock(f, iv, frame, n) ==
  LET kmax == ((frame + n - f + 1) * iv[2]) \div iv[1] + 2
      ks == {k \in 1..kmax : GridPoint(f, iv, k) >= frame /\ GridPoint(f, iv, k) < frame + n}
      k0 == IF ks = {} THEN 0 ELSE CHOOSE k \in ks : \A j \in ks : k <= j
  IN [i \in 1..Cardinality(ks) |-> GridPoint(f, iv, k0 + i - 1)]

\* the absolute frames of the Clock pulses the tick loop scheduled in the block
LoopClockFrames ==
  LET c == AtLine(port_buf, 390)
  IN [i \in 1..Len(c) |-> xpos.frame + c[i].time]

\* C1: while the transport rolls steadily (constant positive tempo, no BBT frame
\* offset, every block starting where the last one ended) since the accumulator
\* was reset to frame F, the Clock pulses the tick loop schedules in a block are
\* exactly the grid points llrint(F + k*interval), k >= 1, that fall into the
\* block, one Clock each, however the timeline is cut into blocks; at frame rate
\* 48000 and tempo 120 the interval is exactly 1000 frames.
C1_ClocksOnGrid ==
  /\ tick_origin >= 0 =>
       LoopClockFrames =
         GridInBlock(tick_origin, clock_tick_interval(xpos), xpos.frame, nframes)
  /\ Rat(48000 * 60, 120 * 24) = <<1000, 1>>

\* a later block of a steady run at 2.5 frames per tick holds a Clock
C1_Witness ==
  /\ tick_origin >= 0
  /\ xpos.frame > tick_origin + 2
  /\ clock_tick_interval(xpos) = <<5, 2>>
  /\ Len(AtLine(port_buf, 390)) >= 1

(***************************************************************************)
(* C2                                                                      *)
(***************************************************************************)
\* a one byte event that was written
Ev(time, rt_msg, line) == [time |-> time, data |-> <<rt_msg>>, line |-> line, ok |-> TRUE]

\* C2: when the tracked state is Stopped and the snapshot reports Rolling at
\* frame 0 (transport messages not suppressed, room in the buffer), the block's
\* output begins with Start at offset 0 followed by Clock at offset 0 and holds
\* no Continue; and as long as the transport then keeps rolling, no block
\* holds a Continue.
C2_StartAtFrameZero ==
  [][RunStep =>
       /\ (/\ m_xstate = JackTransportStopped
           /\ xstate' = JackTransportRolling
           /\ xpos'.frame = 0
           /\ ~NoTransport
           /\ AllOk(port_buf'))
          => /\ Len(port_buf') >= 2
             /\ port_buf'[1] = Ev(0, MIDI_RT_START, 303)
             /\ port_buf'[2] = Ev(0, MIDI_RT_CLOCK, 324)
             /\ Msgs(port_buf', MIDI_RT_CONTINUE) = <<>>
             /\ song_position_sync' = 0
       /\ (/\ m_xstate = JackTransportRolling
           /\ xstate' = JackTransportRolling
           /\ song_position_sync = 0)
          => /\ Msgs(port_buf', MIDI_RT_CONTINUE) = <<>>
             /\ song_position_sync' = 0
  ]_vars

\* a block after a Start at frame 0, still rolling, that holds a Clock of the tick loop
C2_Witness ==
  /\ client_state = "Run"
  /\ ~NoTransport
  /\ m_xstate = JackTransportRolling
  /\ song_position_sync = 0
  /\ xpos.frame > 0
  /\ AtLine(port_buf, 390) # <<>>
  /\ AtLine(port_buf, 324) = <<>>

(***************************************************************************)
(* C3                                                                      *)
(***************************************************************************)
\* the transport resumes from Stopped into Rolling at a frame > 0, with position
\* and transport messages enabled and a known tempo
Resume ==
  /\ RunStep
  /\ m_xstate = JackTransportStopped
  /\ xstate' = JackTransportRolling
  /\ xpos'.frame > 0
  /\ msg_filter = 0
  /\ tempo_source(xpos') # "none"

\* C3: at every such resume, whatever led to it, there is no Continue at the
\* transition itself and a Continue is due: a position was sent and its sync
\* target is armed when the block ends, or the tick loop of this very block
\* reached the target and wrote the Continue.
C3_ResumeDefersContinue ==
  [][(Resume /\ AllOk(port_buf')) =>
       /\ TransitionMsgs(port_buf') = <<>>
       /\ \/ song_position_sync' > 0
          \/ AtLine(port_buf', 383) # <<>>
  ]_vars

(***************************************************************************)
(* C4                                                                      *)
(***************************************************************************)
\* C4: a block in which the tracked state changes to Stopped reserves exactly
\* one Stop unless transport messages are suppressed (then none): it is the
\* first event of the block, at offset 0, it is written whenever the buffer has
\* room for an event, and every SongPosition of the block comes after it.
C4_StopOnce ==
  [][(RunStep /\ m_xstate # JackTransportStopped /\ xstate' = JackTransportStopped) =>
       IF NoTransport THEN Msgs(port_buf', MIDI_RT_STOP) = <<>>
       ELSE /\ Len(Msgs(port_buf', MIDI_RT_STOP)) = 1
            /\ Status(port_buf'[1]) = MIDI_RT_STOP
            /\ port_buf'[1].time = 0
            /\ port_buf'[1].ok \/ Written(port_buf') = <<>>
            /\ \A i \in 1..Len(port_buf') :
                 Status(port_buf'[i]) = MIDI_SONG_POS => i > 1
  ]_vars

\* a block that wrote the Stop and then the SongPosition of the stop position
C4_Witness ==
  /\ m_xstate = JackTransportStopped
  /\ Len(port_buf) = 2
  /\ port_buf[1] = Ev(0, MIDI_RT_STOP, 271)
  /\ port_buf[2].line = 273
  /\ port_buf[2].ok

(***************************************************************************)
(* C5                                                                      *)
(***************************************************************************)
\* C5: with transport messages suppressed (-T) no block holds a Start, Continue
\* or Stop.
C5_NoTransportMessages ==
  NoTransport =>
    \A i \in 1..Len(Written(port_buf)) :
      Status(Written(port_buf)[i]) \notin {MIDI_RT_START, MIDI_RT_CONTINUE, MIDI_RT_STOP}

(***************************************************************************)
(* C6                                                                      *)
(***************************************************************************)
\* C6: with position messages suppressed (-P) no block holds a SongPosition,
\* song_position_sync is -1 or 0 in every state, and a Continue appears only at
\* offset 0 of a block in which the tracked transport state changed.
C6_NoPositionMessages ==
  /\ [](NoPosition =>
          /\ Msgs(port_buf, MIDI_SONG_POS) = <<>>
          /\ song_position_sync \in {-1, 0})
  /\ [][(RunStep /\ NoPosition /\ Msgs(port_buf', MIDI_RT_CONTINUE) # <<>>) =>
          /\ m_xstate' # m_xstate
          /\ \A i \in 1..Len(port_buf') :
               Status(port_buf'[i]) = MIDI_RT_CONTINUE => port_buf'[i].time = 0
     ]_vars

\* a resume at a frame > 0 with -P: Continue at offset 0, then the initial Clock
C6_Witness ==
  /\ NoPosition
  /\ xpos.frame > 0
  /\ Len(port_buf) >= 2
  /\ port_buf[1] = Ev(0, MIDI_RT_CONTINUE, 312)
  /\ port_buf[2] = Ev(0, MIDI_RT_CLOCK, 324)

(***************************************************************************)
(* C7                                                                      *)
(***************************************************************************)
\* C7: a block whose snapshot is not Rolling holds no Clock.
C7_NoClockUnlessRolling ==
  xstate # JackTransportRolling => Msgs(port_buf, MIDI_RT_CLOCK) = <<>>

\* a block that entered Starting at frame 0 with a known tempo and wrote a Start
C7_Witness ==
  /\ xstate = JackTransportStarting
  /\ xpos.frame = 0
  /\ tempo_source(xpos) # "none"
  /\ AtLine(port_buf, 303) # <<>>

(***************************************************************************)
(* C8                                                                      *)
(***************************************************************************)
\* C8: every event of a block has an offset in 0..nframes-1, the events are
\* written in non-decreasing offset order, and the Clock pulses of the tick loop
\* have strictly increasing offsets when the interval is above one frame.
C8_OffsetsInBlock ==
  /\ \A i \in 1..Len(port_buf) : port_buf[i].time >= 0 /\ port_buf[i].time < nframes
  /\ \A i \in 1..(Len(port_buf) - 1) : port_buf[i].time <= port_buf[i + 1].time
  /\ LET c == AtLine(port_buf, 390)
     IN (c # <<>> /\ RatLess(<<1, 1>>, clock_tick_interval(xpos))) =>
          \A i \in 1..(Len(c) - 1) : c[i].time < c[i + 1].time

\* a block with two Clock pulses of the tick loop, the last in its last frame,
\* at an interval above one frame
C8_Witness ==
  /\ Len(AtLine(port_buf, 390)) = 2
  /\ RatLess(<<1, 1>>, clock_tick_interval(xpos))
  /\ port_buf[Len(port_buf)].time = nframes - 1

(***************************************************************************)
(* C9                                                                      *)
(***************************************************************************)
\* C9 as stated: the state-change handling of a block writes at most one of
\* Stop, Start and Continue.
C9_AtMostOneTransition ==
  [][RunStep => Len(Written(TransitionMsgs(port_buf'))) <= 1]_vars

\* C9 amended: the state-change handling of a block emits at most one of Stop,
\* Start and Continue, except that a Starting -> Rolling block with position and
\* transport messages enabled, entered with no sync target (song_position_sync
\* < 0), emits a Stop followed by a Continue when the new SongPosition could not
\* be sent.
C9_AtMostOneTransitionAmended ==
  [][RunStep =>
       \/ Len(TransitionMsgs(port_buf')) <= 1
       \/ /\ TransitionMsgs(port_buf') =
               AtLine(port_buf', 282) \o AtLine(port_buf', 288)
          /\ AtLine(port_buf', 282) = <<port_buf'[1]>>
          /\ Len(AtLine(port_buf', 288)) = 1
          /\ \A i \in 1..2 : TransitionMsgs(port_buf')[i].time = 0
          /\ m_xstate = JackTransportStarting
          /\ xstate' = JackTransportRolling
          /\ msg_filter = 0
          /\ song_position_sync < 0
          /\ Written(Msgs(port_buf', MIDI_SONG_POS)) = <<>>
          /\ song_position_sync' = -1
  ]_vars

\* a block that wrote a Stop and then a Continue at offset 0
C9_Witness ==
  /\ Len(port_buf) >= 2
  /\ port_buf[1] = Ev(0, MIDI_RT_STOP, 282)
  /\ port_buf[2] = Ev(0, MIDI_RT_CONTINUE, 288)

Newest(h) == h[Len(h)]

\* C11: for a BBT position whose value pos = offset + 4*((bar-1)*beats_per_bar
\* + (beat-1)) + floor(4*tick/ticks_per_beat) lies in 0..16383 the generator
\* writes [0xF2, pos & 0x7F, (pos >> 7) & 0x7F], both data bytes below 0x80,
\* and arms the sync target with pos, and the decoder's event for that message
\* carries exactly pos; for any other position, and without BBT, nothing is
\* written and the sync target is -1.
C11_SongPositionRoundTrip ==
  /\ [](env = "songpos" =>
          LET pos == auto_offset(xpos)
                     + 4 * ((xpos.bar - 1) * xpos.beats_per_bar + (xpos.beat - 1))
                     + (4 * xpos.tick) \div xpos.ticks_per_beat
          IN IF xpos.valid /\ pos \in 0..16383
             THEN /\ Len(port_buf) = 1
                  /\ port_buf[1].ok
                  /\ port_buf[1].data = <<242, pos % 128, (pos \div 128) % 128>>
                  /\ port_buf[1].data[2] < 128
                  /\ port_buf[1].data[3] < 128
                  /\ song_position_sync = pos
             ELSE /\ port_buf = <<>>
                  /\ song_position_sync = -1)
  /\ [][(env = "songpos" /\ rt_pc = "event" /\ rt_pc' = "signal" /\ Len(rb) < MaxQueue)
          => rb' = Append(rb, [msg |-> 242, pos |-> song_position_sync,
                               tme |-> monotonic_cnt])]_vars

\* a position of more than 7 bits went through the decoder
C11_Witness ==
  /\ env = "songpos"
  /\ rt_pc = "signal"
  /\ song_position_sync = 16383
  /\ enqueued # <<>>
  /\ Newest(enqueued).pos = 16383

\* C12: writing an event never blocks the real-time callback: an event that
\* passed the filter is always written or dropped and the callback goes on;
\* when the ring buffer has no room the new event is dropped and the ring
\* buffer is left as it is; the ring buffer never holds more than MaxQueue
\* events; and of MaxQueue + 1 events that arrive before the main thread reads,
\* the ring buffer holds the first MaxQueue.
C12_WriteNeverBlocks ==
  /\ [](Len(rb) <= MaxQueue)
  /\ [](rt_pc = "event" => ENABLED process_jmidi_event)
  /\ [](rt_pc = "signal" => ENABLED signal_data_ready)
  /\ [][(rt_pc = "event" /\ rt_pc' = "signal" /\ Len(rb) = MaxQueue)
          => (rb' = rb /\ enqueued' = enqueued)]_vars
  /\ [][(rt_pc = "event" /\ rt_pc' = "signal" /\ Len(rb) < MaxQueue)
          => (Len(rb') = Len(rb) + 1 /\ SubSeq(rb', 1, Len(rb)) = rb)]_vars
  /\ []((env = "burst" /\ delivered = MaxQueue + 1 /\ rt_pc = "idle" /\ dequeued = <<>>)
          => (Len(rb) = MaxQueue /\ rb = enqueued))

\* a block of MaxQueue + 1 events went through the callback before the main
\* thread read any
C12_Witness ==
  /\ env = "burst"
  /\ delivered = MaxQueue + 1
  /\ monotonic_cnt = in_nframes
  /\ rt_pc = "idle"
  /\ dequeued = <<>>
  /\ Len(rb) = MaxQueue

\* the time stamps of a history do not decrease
InTimeOrder(h) == \A i \in 1..Len(h) : \A j \in i..Len(h) : h[i].tme <= h[j].tme

\* C13: the main thread reads the events in exactly the order the real-time
\* callback wrote them, each at most once (what it has read, followed by what
\* the ring buffer holds, is what was written), each read hands the oldest
\* event of the ring buffer to print_time_event, and the time stamps (frame
\* counter at the start of the block plus offset in the block) do not decrease,
\* under every interleaving of the two threads.
C13_ReadInWriteOrder ==
  /\ [](dequeued \o rb = enqueued)
  /\ [](InTimeOrder(enqueued) /\ InTimeOrder(dequeued))
  /\ [][(rt_pc = "event" /\ rt_pc' = "signal" /\ enqueued' # enqueued)
          => Newest(enqueued').tme = monotonic_cnt + Head(jack_buf).time]_vars
  /\ [][dequeued' # dequeued
          => /\ dequeued' = Append(dequeued, Head(rb))
             /\ rb' = Tail(rb)
             /\ state' = print_time_event(state, Head(rb))]_vars

\* the main thread has read two events of different blocks while the callback
\* has written a third
C13_Witness ==
  /\ env = "stream"
  /\ Len(dequeued) = 2
  /\ dequeued[1].tme < dequeued[2].tme
  /\ rb # <<>>
  /\ main_pc = "read"

\* the Clock events of a history behind its last Start, Continue or Stop
RECURSIVE ClocksSinceReset(_)
ClocksSinceReset(h) ==
  IF h = <<>> THEN 0
  ELSE IF IsTransport(Newest(h).msg) THEN 0
  ELSE IF Newest(h).msg = MIDI_RT_CLOCK THEN 1 + ClocksSinceReset(SubSeq(h, 1, Len(h) - 1))
  ELSE ClocksSinceReset(SubSeq(h, 1, Len(h) - 1))

\* C14: sequence is 0 after any Start, Continue or Stop is processed, whatever
\* it was before; in every state sequence is the number of Clock events
\* processed since the last Start, Continue or Stop (or since startup): a Clock
\* adds one, a SongPosition leaves it as it is.
C14_SequenceCountsClocks ==
  /\ [](state.sequence = ClocksSinceReset(dequeued))
  /\ [][dequeued' # dequeued
          => LET t == Head(rb)
             IN /\ IsTransport(t.msg) => state'.sequence = 0
                /\ t.msg = MIDI_RT_CLOCK => state'.sequence = state.sequence + 1
                /\ t.msg = MIDI_SONG_POS => state'.sequence = state.sequence]_vars

\* a Stop was processed at sequence 2
C14_Witness ==
  /\ Len(dequeued) = 3
  /\ dequeued[1].msg = MIDI_RT_CLOCK
  /\ dequeued[2].msg = MIDI_RT_CLOCK
  /\ dequeued[3].msg = MIDI_RT_STOP
  /\ state.sequence = 0

\* the time stamps of the Clock events of a history behind its last Start,
\* Continue or Stop
RECURSIVE ClockTimes(_)
ClockTimes(h) ==
  IF h = <<>> THEN <<>>
  ELSE IF IsTransport(Newest(h).msg) THEN <<>>
  ELSE IF Newest(h).msg = MIDI_RT_CLOCK
  THEN Append(ClockTimes(SubSeq(h, 1, Len(h) - 1)), Newest(h).tme)
  ELSE ClockTimes(SubSeq(h, 1, Len(h) - 1))

\* the loop after one update for each of the time stamps ts
RECURSIVE Updated(_, _)
Updated(dll, ts) ==
  IF ts = <<>> THEN dll ELSE Updated(run_dll(dll, Head(ts)).dll, Tail(ts))

\* C15: the first Clock after startup or after a Start, Continue or Stop
\* (sequence 0) is reported with unknown BPM and leaves the DLL as it is; the
\* second Clock (sequence 1) initializes the DLL with its time stamp and period
\* = its time stamp minus the previous Clock's; each later Clock (sequence > 1)
\* runs one update; Start, Continue and Stop set sequence to 0 and leave the
\* DLL alone.  So from the second Clock on, the DLL is the one initialized
\* from the first two Clocks since the last Start, Continue or Stop, updated
\* once for each Clock since.
C15_ThreePhases ==
  /\ [][dequeued' # dequeued
          => LET t == Head(rb)
                 prev == ClockTimes(dequeued)
             IN /\ (t.msg = MIDI_RT_CLOCK /\ state.sequence = 0)
                     => /\ state'.dll = state.dll
                        /\ report'.kind = "CLK"
                        /\ report'.cur = Unknown
                        /\ report'.flt = Unknown
                /\ (t.msg = MIDI_RT_CLOCK /\ state.sequence = 1)
                     => /\ state'.dll = init_dll(state.dll, t.tme, t.tme - prev[Len(prev)])
                        /\ report'.dt = t.tme - prev[Len(prev)]
                /\ (t.msg = MIDI_RT_CLOCK /\ state.sequence > 1)
                     => state'.dll = run_dll(state.dll, t.tme).dll
                /\ IsTransport(t.msg) => (state'.sequence = 0 /\ state'.dll = state.dll)
                /\ t.msg = MIDI_SONG_POS => state'.dll = state.dll]_vars
  /\ [](LET ts == ClockTimes(dequeued)
        IN Len(ts) >= 2
             => state.dll = Updated(init_dll(NoDLL, ts[2], ts[2] - ts[1]),
                                    SubSeq(ts, 3, Len(ts))))

\* the DLL was initialized and updated, a Stop followed, and the DLL was
\* initialized and updated again
C15_Witness ==
  /\ Len(dequeued) = 7
  /\ dequeued[4].msg = MIDI_RT_STOP
  /\ state.sequence = 3
  /\ state.dll.t0 = <<1, 4>>

\* C16 as stated: the report of a Clock processed at sequence 1 carries the
\* instantaneous BPM samplerate*60/(24*period) and an unknown filtered BPM.
C16_FilteredUnknownAtInit ==
  [][(dequeued' # dequeued /\ Head(rb).msg = MIDI_RT_CLOCK /\ state.sequence = 1)
       => /\ report'.cur = Quotient(<<samplerate * 60, 1>>,
                                    <<24 * (Head(rb).tme - state.pt.tme), 1>>)
          /\ report'.flt = Unknown]_vars

\* C16 amended: the report of a Clock processed at sequence 1 carries the
\* instantaneous BPM samplerate*60/(24*period) both as the current and as the
\* filtered BPM; at sequence > 1 the filtered BPM is 60/(24*p), p being the
\* period the DLL update yields (t1 - t0 after the update); both are unknown
\* only at sequence 0.
C16_FilteredFromInit ==
  [][(dequeued' # dequeued /\ Head(rb).msg = MIDI_RT_CLOCK)
       => LET dt == Head(rb).tme - state.pt.tme
              bpm == IF dt = 0 THEN Infinite ELSE Rat(samplerate * 60, 24 * dt)
          IN /\ state.sequence = 0 => (report'.cur = Unknown /\ report'.flt = Unknown)
             /\ state.sequence = 1 => (report'.cur = bpm /\ report'.flt = bpm)
             /\ state.sequence > 1
                  => /\ report'.cur = bpm
                     /\ report'.flt = Quotient(<<60, 1>>,
                                        RatMul(<<24, 1>>,
                                               RatSub(state'.dll.t1, state'.dll.t0)))]_vars

\* a Clock was processed at sequence 1, two frames after the one before
C16_Witness ==
  /\ state.sequence = 2
  /\ report.kind = "CLK"
  /\ report.dt = 2
  /\ report.cur = <<60, 1>>
  /\ report.flt = <<60, 1>>

\* C17: the real-time callback writes an event to the ring buffer if and only
\* if the message is a 1-byte message 0xF8, 0xFA, 0xFB or 0xFC or a 3-byte
\* message whose first byte is 0xF2; any other message, a 1-byte 0xF2 among
\* them, leaves the ring buffer and the decoder state as they are, and no byte
\* behind the end of a message is read.
C17_AcceptsOnlyBeatClock ==
  [][(rt_pc = "event" /\ (rt_pc' = "signal" \/ jack_buf' # jack_buf))
       => LET ev == Head(jack_buf)
              accepted ==
                \/ Len(ev.data) = 1 /\ ev.data[1] \in {248, 250, 251, 252}
                \/ Len(ev.data) = 3 /\ ev.data[1] = 242
          IN /\ enqueued' # enqueued => accepted
             /\ (accepted /\ Len(rb) < MaxQueue) => enqueued' = Append(enqueued, Newest(rb'))
             /\ ~accepted => (rb' = rb /\ state' = state /\ rt_pc' # "signal")
             /\ ~reads_beyond(ev)]_vars

\* C18: once a request to exit (HUP or INT signal, JACK server shutdown) has
\* set client_state to Exit, at any moment after its handler was registered,
\* client_state stays Exit (so the main thread leaves its loop and cleans up).
C18_ExitIsKept ==
  [][client_state = "Exit" => client_state' = "Exit"]_vars

\* a step of the decoder that needs no new input: of the real-time callback
\* within a block, or of the main thread
DumpProgramStep ==
  \/ process_jmidi_event
  \/ signal_data_ready
  \/ main_loop_test
  \/ main_read_event
  \/ main_cond_wait
  \/ main_wakeup

\* C19: after a request to stop (run = 0) or a JACK server shutdown (j_client
\* = NULL) the main thread terminates without further input, whatever the
\* interleaving: as long as it has not terminated, a step of the program is
\* enabled.
C19_StopRequestEndsMain ==
  (run = 0 \/ j_client = "NULL") => (main_pc = "done" \/ ENABLED DumpProgramStep)

\* the snapshot of the block is Rolling with a BBT tempo that is not positive
NonPositiveTempo ==
  /\ client_state = "Run"
  /\ xstate = JackTransportRolling
  /\ tempo_source(xpos) = "bbt"
  /\ xpos.beats_per_minute <= 0

\* C20: the tick loop ends within the block for every snapshot, a Rolling
\* transport whose BBT tempo is zero or negative included, and such a block
\* holds no Clock of the tick loop.
C20_TickLoopEnds ==
  /\ ~tick_loop_hung
  /\ NonPositiveTempo => AtLine(port_buf, 390) = <<>>

(***************************************************************************)
(* C21                                                                     *)
(***************************************************************************)
\* the snapshot of the block gives no tempo: no valid BBT and no user BPM
\* above zero (lines 336-349)
NoTempoKnown == ~xpos.valid /\ user_bpm <= 0

\* C21: when no tempo is known the block holds no Clock, whatever the transport
\* state, its transitions and the frame.
C21_NoClockWithoutTempo ==
  (client_state = "Run" /\ NoTempoKnown) =>
    Written(Msgs(port_buf, MIDI_RT_CLOCK)) = <<>>

(***************************************************************************)
(* C22                                                                     *)
(***************************************************************************)
\* the tempo value by the stated precedence, 0 when there is none
TempoByPrecedence(xp) ==
  IF force_bpm /\ user_bpm > 0 THEN user_bpm
  ELSE IF xp.valid THEN xp.beats_per_minute
  ELSE IF user_bpm > 0 THEN user_bpm
  ELSE 0

\* that value as quarter notes per minute: with --strict-bpm it counts beats
\* and is scaled by beat_type / 4
QuarterNotesPerMinute(xp) ==
  IF tempo_is_qnpm THEN RatOfInt(TempoByPrecedence(xp))
  ELSE Rat(TempoByPrecedence(xp) * xp.beat_type, 4)

\* frames per Clock at 24 Clocks per quarter note
FramesPerClock(xp) ==
  LET q == QuarterNotesPerMinute(xp) IN Rat(xp.frame_rate * 60 * q[2], q[1] * 24)

\* the numbers of iterations in which the tick loop advances the accumulator
\* from lt to last, in steps of iv > 0: (last - lt) / iv if that is a whole
\* number that is not negative
TicksBetween(lt, last, iv) ==
  LET d == RatSub(last, lt)
      num == d[1] * iv[2]
      den == d[2] * iv[1]
  IN IF num >= 0 /\ num % den = 0 THEN {num \div den} ELSE {}

\* next_tick_offset of line 372 for the tick t
TickOffset(t, xp, off) == llrint(t) - xp.frame - off

EvenlyFed == feed # NoFeed /\ feed.n >= 1 /\ feed.even

\* the period of the feed in seconds, as init_dll() computes it (line 226)
FeedPeriod == DDiv(DoubleOfInt(feed.period), DoubleOfInt(feed.rate))

\* the last update found no error and returned the period of the feed, and
\* t1 - t0 and e2 are that period
PeriodKept ==
  /\ loop_ret.e = Zero
  /\ loop_ret.period = FeedPeriod
  /\ DSub(loop.t1, loop.t0) = FeedPeriod
  /\ loop.e2 = FeedPeriod

\* C23 as stated: initialized at T with period P and updated with the evenly
\* spaced timestamps T+P, T+2P, .., every update of the DLL returns P/sampleRate:
\* the error is 0 and t1 - t0 and e2 stay at the initial period, for every
\* bandwidth.
C23_EvenFeedKeepsPeriod == EvenlyFed => PeriodKept

RECURSIVE IsPowerOfTwo(_)
IsPowerOfTwo(n) == n = 1 \/ (n > 1 /\ n % 2 = 0 /\ IsPowerOfTwo(n \div 2))

\* n / d is a binary fraction: a double holds it, and its small multiples, exactly
BinaryFraction(n, d) == IsPowerOfTwo(d \div GCD(n, d))

\* C23 amended: the same, where T/sampleRate and P/sampleRate are binary
\* fractions, so that the quotients and sums of the loop are computed without
\* rounding; for every bandwidth.
C23_EvenFeedKeepsPeriodExact ==
  (/\ EvenlyFed
   /\ BinaryFraction(feed.start, feed.rate)
   /\ BinaryFraction(feed.period, feed.rate))
  => PeriodKept

\* three or more updates at every 375 frames from frame 375 on, at the
\* smallest bandwidth
C23_Witness ==
  /\ EvenlyFed
  /\ feed.n >= 3
  /\ feed.start = 375 /\ feed.period = 375
  /\ feed.bandwidth = <<1, 10>>
  /\ loop_ret.period = FeedPeriod

(***************************************************************************)
(* C24                                                                     *)
(***************************************************************************)
\* the main thread reads the event at the head of the ring buffer, a Clock
ClockRead == dequeued' # dequeued /\ Head(rb).msg = MIDI_RT_CLOCK

\* C24: the loop coefficients b and c change only when a Clock is processed
\* with sequence = 1 (init_dll); a Clock processed with sequence > 1 (run_dll)
\* leaves b and c as they are and sets t0 to the old t1, and no other step of
\* the decoder touches the DLL.
C24_CoefficientsSetAtInit ==
  [][/\ (state'.dll.b # state.dll.b \/ state'.dll.c # state.dll.c)
          => (ClockRead /\ state.sequence = 1)
     /\ (ClockRead /\ state.sequence > 1)
          => /\ state'.dll.b = state.dll.b
             /\ state'.dll.c = state.dll.c
             /\ state'.dll.t0 = state.dll.t1
     /\ state'.dll # state.dll => (ClockRead /\ state.sequence >= 1)
  ]_vars

\* the DLL was initialized and then updated with a Clock that came off its
\* period: e2 has moved, b and c are those of the initialization
C24_Witness ==
  /\ state.sequence >= 3
  /\ state.dll.b # <<0, 1>>
  /\ state.dll.c = RatMul(Rat(state.dll.b[1] * SQRT2[2], state.dll.b[2] * SQRT2[1]),
                          Rat(state.dll.b[1] * SQRT2[2], state.dll.b[2] * SQRT2[1]))
  /\ RatSub(state.dll.t1, state.dll.t0) # state.dll.e2

(***************************************************************************)
(* C25                                                                     *)
(***************************************************************************)
\* the 14 bit value of a SongPosition event
PosValue(e) == e.data[2] + 128 * e.data[3]

\* the tracked state is Starting, the snapshot reports Rolling and position
\* messages are enabled
StartingToRolling ==
  /\ RunStep
  /\ m_xstate = JackTransportStarting
  /\ xstate' = JackTransportRolling
  /\ ~NoPosition

RelocatedWhileRolling ==
  /\ StartingToRolling
  /\ starting_from = JackTransportRolling
  /\ xpos'.frame > 0
  /\ xpos'.valid

\* C26: after every relocation while rolling, the first one after a Start at
\* frame 0 included, the block of the Starting -> Rolling transition writes the
\* SongPosition of the new position (given room in the buffer) and re-arms the
\* sync target to it, unless the tick loop of this block reaches it already.
C26_RelocationSendsPosition ==
  [][(RelocatedWhileRolling /\ AllOk(port_buf')) =>
       LET pos == AtLine(port_buf', 286)
       IN /\ Len(pos) = 1
          /\ PosValue(pos[1]) = calc_song_pos(xpos', -1)
          /\ \/ song_position_sync' = PosValue(pos[1])
             \/ song_position_sync' = -1 /\ (NoTransport \/ AtLine(port_buf', 383) # <<>>)
  ]_vars

(***************************************************************************)
(* C27                                                                     *)
(***************************************************************************)
\* a block without state change while rolling, entered with the armed target
\* already reached at the block start, that schedules at least one Clock
ReachedAtBlockStart ==
  /\ RunStep
  /\ m_xstate = JackTransportRolling
  /\ xstate' = JackTransportRolling
  /\ ~NoPosition
  /\ song_position_sync > 0
  /\ calc_song_pos(xpos', 0) >= song_position_sync
  /\ AtLine(port_buf', 390) # <<>>

\* the Continue of line 383 at index i of buf is directly followed by the
\* Clock of line 390 at the same offset; the Clock is written as well unless
\* the buffer has just run out of room
ContinueJustBeforeClock(buf, i) ==
  /\ buf[i].data = <<MIDI_RT_CONTINUE>>
  /\ i < Len(buf)
  /\ buf[i + 1].line = 390
  /\ buf[i + 1].data = <<MIDI_RT_CLOCK>>
  /\ buf[i + 1].time = buf[i].time
  /\ (buf[i].ok /\ ~buf[i + 1].ok) => \A j \in (i + 1)..Len(buf) : ~buf[j].ok

\* C27: a deferred Continue (line 383) comes at the same offset as, and
\* immediately before, a Clock of the same block; reaching the target sets
\* song_position_sync to -1, also under -T where no Continue is written; a
\* block holds at most one deferred Continue, and a block that holds one was
\* entered with a positive target or re-armed it itself (line 286).
C27_DeferredContinue ==
  [][RunStep =>
       LET buf == port_buf'
           cont == AtLine(buf, 383)
       IN /\ \A i \in 1..Len(buf) : buf[i].line = 383 => ContinueJustBeforeClock(buf, i)
          /\ Len(cont) <= 1
          /\ cont # <<>> => song_position_sync' = -1 /\ ~NoTransport
          /\ ReachedAtBlockStart =>
               /\ song_position_sync' = -1
               /\ Len(cont) = IF NoTransport THEN 0 ELSE 1
          /\ (cont # <<>> /\ song_position_sync <= 0) => Written(AtLine(buf, 286)) # <<>>
  ]_vars

\* a deferred Continue was written at an offset > 0, directly before a Clock
C27_Witness ==
  /\ client_state = "Run"
  /\ song_position_sync = -1
  /\ \E i \in 1..Len(port_buf) :
       /\ port_buf[i].line = 383
       /\ port_buf[i].ok
       /\ port_buf[i].time > 0
       /\ ContinueJustBeforeClock(port_buf, i)
       /\ port_buf[i + 1].ok

(***************************************************************************)
(* C28                                                                     *)
(***************************************************************************)
\* the sync target with which the tick loop of this block starts: the target
\* the block was entered with when the state does not change, the SongPosition
\* just sent (line 286) in the block of a Starting -> Rolling transition
ArmedTarget ==
  IF m_xstate = JackTransportRolling THEN song_position_sync
  ELSE IF m_xstate = JackTransportStarting /\ AtLine(port_buf', 286) # <<>>
  THEN PosValue(AtLine(port_buf', 286)[1])
  ELSE -1

\* a block while rolling whose tick loop starts with an armed target,
\* positions and transport messages enabled, room in the buffer
ArmedRollingBlock ==
  /\ RunStep
  /\ xstate' = JackTransportRolling
  /\ ArmedTarget > 0
  /\ ~NoPosition
  /\ ~NoTransport
  /\ AllOk(port_buf')

\* the Clock pulses of the tick loop that buf holds before index i
PulsesBefore(buf, i) == Len(AtLine(SubSeq(buf, 1, i - 1), 390))

\* the song position in MIDI beats after k Clock pulses of the block on
\* snapshot xp, at per pulses to the MIDI beat
SongPositionAfter(xp, k, per) == calc_song_pos(xp, 0) + k \div per

\* in buf, the block on snapshot xp entered with the target sync, the Continue
\* of line 383 stands before the first Clock pulse at which the song position
\* has reached the target, and before no other
ContinueAtFirstPulse(buf, xp, sync, per) ==
  \A i \in 1..Len(buf) :
    buf[i].line = 390 =>
      LET k == PulsesBefore(buf, i)
      IN (i > 1 /\ buf[i - 1].line = 383)
           <=> /\ SongPositionAfter(xp, k, per) >= sync
               /\ k > 0 => SongPositionAfter(xp, k - 1, per) < sync

\* C28: the deferred Continue is emitted at the first Clock pulse at which the
\* block-start song position plus the pulses already scheduled in the block,
\* at 6 pulses to the MIDI beat, reaches the armed target, and at no earlier one.
C28_ContinueWhenTargetReached ==
  [][ArmedRollingBlock => ContinueAtFirstPulse(port_buf', xpos', ArmedTarget, 6)]_vars

(***************************************************************************)
(* C29                                                                     *)
(***************************************************************************)
\* the Continue at index i of the block buffer buf' comes from the tick loop,
\* which started with a positive sync target and cleared it
DeferredContinue(i) ==
  /\ port_buf'[i].line = 383
  /\ song_position_sync' = -1
  /\ \/ song_position_sync > 0
     \/ \E j \in 1..(i - 1) :
          /\ port_buf'[j].line = 286
          /\ port_buf'[j].ok
          /\ PosValue(port_buf'[j]) > 0

\* the Continue at index i of the block buffer buf' stands for a SongPosition
\* that could not be sent after a locate while rolling (line 288)
ContinueForLostPosition(i) ==
  /\ port_buf'[i].line = 288
  /\ port_buf'[i].time = 0
  /\ m_xstate = JackTransportStarting
  /\ xstate' = JackTransportRolling
  /\ song_position_sync # 0
  /\ ~NoTransport
  /\ Written(AtLine(port_buf', 286)) = <<>>
  /\ \/ ~xpos'.valid
     \/ calc_song_pos(xpos', -1) >= 16384
     \/ \E j \in 1..(i - 1) : port_buf'[j].line = 286 /\ ~port_buf'[j].ok

\* C29 as stated: with position messages enabled every Continue written comes
\* from the tick loop, at the moment a positive sync target is reached and cleared; none
\* is sent as part of a transport state transition.
C29_ContinueOnlyDeferred ==
  [][(RunStep /\ ~NoPosition) =>
       \A i \in 1..Len(port_buf') :
         (port_buf'[i].ok /\ Status(port_buf'[i]) = MIDI_RT_CONTINUE) => DeferredContinue(i)
  ]_vars

\* C29: with position messages enabled a Continue written comes from the tick loop, at
\* the moment a positive sync target is reached and cleared, or, at offset 0 in
\* the block of a Starting -> Rolling transition, from line 288 when the
\* SongPosition of the new position could not be sent; there is no other.
C29_ContinueDeferredOrLostPosition ==
  [][(RunStep /\ ~NoPosition) =>
       \A i \in 1..Len(port_buf') :
         (port_buf'[i].ok /\ Status(port_buf'[i]) = MIDI_RT_CONTINUE) =>
           DeferredContinue(i) \/ ContinueForLostPosition(i)
  ]_vars

\* after a locate while rolling without valid BBT the block holds Stop and
\* Continue at offset 0, position messages enabled
C29_Witness ==
  /\ client_state = "Run"
  /\ ~NoPosition
  /\ m_xstate = JackTransportRolling
  /\ ~xpos.valid
  /\ Written(AtLine(port_buf, 288)) # <<>>
  /\ Written(AtLine(port_buf, 282)) # <<>>

(***************************************************************************)
(* C30                                                                     *)
(***************************************************************************)
\* the second block of Stopped -> Starting -> Rolling with frame 0 in both
\* transition blocks, transport messages enabled: port_buf is the Starting
\* block with its Start, port_buf' the Rolling block; room in both
StartViaStarting ==
  /\ RunStep
  /\ m_xstate = JackTransportStarting
  /\ starting_from = JackTransportStopped
  /\ xstate' = JackTransportRolling
  /\ xpos.frame = 0
  /\ xpos'.frame = 0
  /\ ~NoTransport
  /\ AtLine(port_buf, 303) # <<>>
  /\ AllOk(port_buf)
  /\ AllOk(port_buf')

\* the two blocks hold one Start, in the Starting block, no Stop and no
\* Continue, and the Rolling block begins with the initial Clock at offset 0
OneStartThenClock ==
  /\ Len(Msgs(port_buf, MIDI_RT_START)) = 1
  /\ Msgs(port_buf', MIDI_RT_START) = <<>>
  /\ Msgs(port_buf \o port_buf', MIDI_RT_STOP) = <<>>
  /\ Msgs(port_buf \o port_buf', MIDI_RT_CONTINUE) = <<>>
  /\ port_buf' # <<>>
  /\ port_buf'[1] = Ev(0, MIDI_RT_CLOCK, 324)

\* C30 as stated: Stopped -> Starting -> Rolling at frame 0 gives one Start (in
\* the Starting block), no Stop, no Continue, the initial Clock at offset 0 in
\* the Rolling block, and song_position_sync ends at -1.
C30_StartViaStartingClearsSync ==
  [][StartViaStarting => (OneStartThenClock /\ song_position_sync' = -1)]_vars

\* C30: the same, but song_position_sync ends at -1 with position messages
\* enabled and stays at 0, the value the Start set, with -P.
C30_StartViaStarting ==
  [][StartViaStarting =>
       /\ OneStartThenClock
       /\ song_position_sync' = IF NoPosition THEN 0 ELSE -1
  ]_vars

\* the Rolling block after Stopped -> Starting at frame 0, positions enabled:
\* the initial Clock and neither Stop nor SongPosition, the target cleared
C30_Witness ==
  /\ client_state = "Run"
  /\ m_xstate = JackTransportRolling
  /\ starting_from = JackTransportStopped
  /\ xpos.frame = 0
  /\ ~NoTransport
  /\ ~NoPosition
  /\ port_buf # <<>>
  /\ port_buf[1] = Ev(0, MIDI_RT_CLOCK, 324)
  /\ song_position_sync = -1

(***************************************************************************)
(* C31                                                                     *)
(***************************************************************************)
\* a block, processed while the client runs, whose snapshot state differs from
\* the tracked state
StateChangeBlock == RunStep /\ xstate' # m_xstate

\* the BBT frame offset the tick loop subtracts (lines 341-343)
OffsetInUse(xp) ==
  IF xp.valid /\ ~(force_bpm /\ user_bpm > 0) THEN xp.bbt_offset ELSE 0

\* the tick loop of the block on snapshot xp runs: rolling with a known tempo
TicksScheduled(xs, xp) ==
  /\ xs = JackTransportRolling
  /\ TempoByPrecedence(xp) > 0

\* the ticks of the block lie on the grid that starts at the snapshot frame:
\* the accumulator ends a whole number of intervals after the frame
AccumulatorFromFrame ==
  IF TicksScheduled(xstate', xpos')
  THEN TicksBetween(RatOfInt(xpos'.frame), mclk_last_tick', FramesPerClock(xpos')) # {}
  ELSE mclk_last_tick' = RatOfInt(xpos'.frame)

\* the first point of the grid from frame f with interval iv that, moved back
\* by off frames, does not lie before f
FirstGridPoint(f, iv, off) ==
  LET kmax == ((off + 1) * iv[2]) \div iv[1] + 2
      k0 == CHOOSE k \in 1..kmax :
              /\ GridPoint(f, iv, k) - off >= f
              /\ \A j \in 1..(k - 1) : GridPoint(f, iv, j) - off < f
  IN GridPoint(f, iv, k0) - off

\* C31 as stated: in a block with a state change the tracked state becomes the
\* snapshot state and the accumulator restarts at the snapshot frame, and the
\* first Clock of the tick loop is at round(frame + interval).
C31_ResetThenFirstTickOneInterval ==
  [][StateChangeBlock =>
       /\ m_xstate' = xstate'
       /\ AccumulatorFromFrame
       /\ AtLine(port_buf', 390) # <<>> =>
            xpos'.frame + AtLine(port_buf', 390)[1].time =
              GridPoint(xpos'.frame, FramesPerClock(xpos'), 1)
  ]_vars

\* C31: the same, but the first Clock of the tick loop is at the first grid
\* point round(frame + k*interval), k >= 1, less the BBT frame offset in use,
\* that does not lie before the block; with no BBT frame offset that is
\* round(frame + interval).
C31_ResetThenFirstTick ==
  [][StateChangeBlock =>
       /\ m_xstate' = xstate'
       /\ AccumulatorFromFrame
       /\ AtLine(port_buf', 390) # <<>> =>
            /\ xpos'.frame + AtLine(port_buf', 390)[1].time =
                 FirstGridPoint(xpos'.frame, FramesPerClock(xpos'), OffsetInUse(xpos'))
            /\ OffsetInUse(xpos') = 0 =>
                 xpos'.frame + AtLine(port_buf', 390)[1].time =
                   GridPoint(xpos'.frame, FramesPerClock(xpos'), 1)
  ]_vars

\* the transport was rolling up to frame 3 and more, stopped, and rolls again
\* from frame 0 at 2.5 frames per tick: the first tick is at frame 2
C31_Witness ==
  /\ client_state = "Run"
  /\ m_xstate = JackTransportRolling
  /\ xpos.frame = 0
  /\ FramesPerClock(xpos) = <<5, 2>>
  /\ AtLine(port_buf, 324) # <<>>
  /\ AtLine(port_buf, 390) # <<>>
  /\ AtLine(port_buf, 390)[1].time = 2

(***************************************************************************)
(* C32                                                                     *)
(***************************************************************************)
\* a block while the transport stays stopped
StoppedBlock ==
  /\ RunStep
  /\ m_xstate = JackTransportStopped
  /\ xstate' = JackTransportStopped

\* bar, beat or tick of the snapshot differ from the remembered position, BBT
\* valid in both
Located ==
  /\ last_xpos.valid
  /\ xpos'.valid
  /\ <<last_xpos.bar, last_xpos.beat, last_xpos.tick>> #
       <<xpos'.bar, xpos'.beat, xpos'.tick>>

\* the position of the snapshot can be sent: position messages are enabled and
\* the value has 14 bits
Sendable ==
  /\ ~NoPosition
  /\ calc_song_pos(xpos', -1) \in 0..16383

\* C32: while the transport stays Stopped a block sends a SongPosition if and
\* only if the snapshot's bar, beat or tick differs from the remembered
\* position, BBT valid in both, and the value can be sent; it is written if
\* the buffer has room and song_position_sync becomes the value written.  A
\* block with unchanged position sends nothing and leaves song_position_sync
\* as it is.  The position remembered is that of the last snapshot with BBT.
C32_PositionWhileStopped ==
  [][StoppedBlock =>
       /\ port_buf' # <<>> <=> (Located /\ Sendable)
       /\ port_buf' # <<>> =>
            /\ Len(port_buf') = 1
            /\ port_buf'[1].line = 261
            /\ port_buf'[1].time = 0
            /\ Status(port_buf'[1]) = MIDI_SONG_POS
            /\ PosValue(port_buf'[1]) = calc_song_pos(xpos', -1)
            /\ song_position_sync' = IF port_buf'[1].ok THEN PosValue(port_buf'[1]) ELSE -1
       /\ ~Located => song_position_sync' = song_position_sync
       /\ last_xpos' = IF xpos'.valid
                       THEN [valid |-> TRUE, bar |-> xpos'.bar, beat |-> xpos'.beat,
                             tick |-> xpos'.tick]
                       ELSE last_xpos
  ]_vars

\* stopped and located away from an armed position: the SongPosition of the
\* new position was written and is the new target
C32_Witness ==
  /\ client_state = "Run"
  /\ m_xstate = JackTransportStopped
  /\ Len(port_buf) = 1
  /\ port_buf[1].line = 261
  /\ port_buf[1].ok
  /\ song_position_sync = PosValue(port_buf[1])
  /\ song_position_sync > 0
  /\ last_xpos.tick = xpos.tick

(***************************************************************************)
(* C33                                                                     *)
(***************************************************************************)
\* the offsets of the Clock pulses in buf, those of the tick loop and the
\* initial one, whether written or not
ClockOffsets(buf) ==
  LET c == Msgs(buf, MIDI_RT_CLOCK) IN [i \in 1..Len(c) |-> c[i].time]

\* what the block on the snapshot of this step gives with room in the buffer
\* for every event
WithAmpleRoom == process_body(xstate', xpos', nframes', AmpleRoom)

\* C33: a Clock the buffer has no room for is the only thing missing: the
\* block asks for the same Clock pulses at the same offsets and leaves the
\* same accumulator and tracked state as it does with room for every event,
\* the pulses written are among them, and the callback returns as ever.
C33_DroppedClockOnly ==
  [][RunStep =>
       /\ ClockOffsets(port_buf') = ClockOffsets(WithAmpleRoom.port_buf)
       /\ mclk_last_tick' = WithAmpleRoom.mclk_last_tick
       /\ m_xstate' = WithAmpleRoom.m_xstate
       /\ last_xpos' = WithAmpleRoom.last_xpos
       /\ tick_loop_hung' = WithAmpleRoom.hung
       /\ client_state' = "Run"
  ]_vars

\* a block of six ticks with room for one event: the first Clock is written,
\* the others are not, and the accumulator has moved on by six intervals
C33_Witness ==
  /\ client_state = "Run"
  /\ m_xstate = JackTransportRolling
  /\ ~tick_loop_hung
  /\ Len(Written(port_buf)) = 1
  /\ Len(AtLine(port_buf, 390)) >= 5
  /\ \E i \in 1..Len(port_buf) : port_buf[i].line = 390 /\ ~port_buf[i].ok
  /\ mclk_last_tick =
       RatAdd(RatOfInt(xpos.frame),
              RatScale(Len(AtLine(port_buf, 390)), clock_tick_interval(xpos)))

(***************************************************************************)
(* C34                                                                     *)
(***************************************************************************)
\* C34: every event written to the ring buffer is read and reported by the
\* main thread while the decoder keeps running, without further input and
\* whatever the interleaving: as long as the ring buffer holds an event and no
\* stop was requested, a step of the program is enabled.
C34_WrittenEventIsRead ==
  (rb # <<>> /\ run = 1 /\ j_client = "client") => ENABLED DumpProgramStep

(***************************************************************************)
(* C35                                                                     *)
(***************************************************************************)
\* the SongPosition messages written in the block buffer buf
PositionsWritten(buf) == Written(Msgs(buf, MIDI_SONG_POS))

\* the value of the last SongPosition written in buf is v
LastPositionIs(buf, v) ==
  LET p == PositionsWritten(buf) IN p # <<>> /\ PosValue(p[Len(p)]) = v

\* C35: song_position_sync starts as -1 and is -1 or a value of 14 bits
\* after every block.  A block leaves it positive only as the value of the last SongPosition it wrote or, having
\* written none, as it was; it leaves it 0 only if it sent a Start (line 303)
\* at frame 0, wrote a SongPosition of value 0 last or, having written none,
\* found it 0.  Hence a positive target is the value of the SongPosition sent
\* last, and a target of 0 goes back to a Start at frame 0 or a SongPosition 0.
C35_SyncTargetValues ==
  /\ song_position_sync = -1
  /\ [][RunStep =>
          /\ song_position_sync' \in -1..16383
          /\ song_position_sync' > 0 =>
               \/ LastPositionIs(port_buf', song_position_sync')
               \/ /\ PositionsWritten(port_buf') = <<>>
                  /\ song_position_sync' = song_position_sync
          /\ song_position_sync' = 0 =>
               \/ /\ AtLine(port_buf', 303) # <<>>
                  /\ xpos'.frame = 0
                  /\ PositionsWritten(port_buf') = <<>>
               \/ LastPositionIs(port_buf', 0)
               \/ /\ PositionsWritten(port_buf') = <<>>
                  /\ song_position_sync = 0
     ]_vars

\* a rolling block without room for any event: the target is still the value
\* of the SongPosition sent before and is not reached yet
C35_Witness ==
  /\ client_state = "Run"
  /\ song_position_sync > 0
  /\ port_buf = <<>>
  /\ m_xstate = JackTransportRolling
  /\ xpos.valid
  /\ calc_song_pos(xpos, 0) < song_position_sync

(***************************************************************************)
(* C36                                                                     *)
(***************************************************************************)
\* e is the last Clock among the events h read so far, and no Start, Continue
\* or Stop was read after it
LastClockSinceReset(h, e) ==
  \E i \in 1..Len(h) :
    /\ h[i] = e
    /\ h[i].msg = MIDI_RT_CLOCK
    /\ \A j \in (i + 1)..Len(h) : h[j].msg # MIDI_RT_CLOCK /\ ~IsTransport(h[j].msg)

\* C36: when a Clock is processed with sequence > 0, the previous event s->pt
\* whose time stamp is subtracted is the last Clock read, and it was read after
\* the most recent Start, Continue or Stop; the delta reported and the period
\* the DLL is initialized with are taken from it.  A Clock processed with
\* sequence 0 is reported without delta and BPM.  Only a Clock replaces the
\* previous event.
C36_DeltaBetweenClocks ==
  [][/\ ClockRead =>
          LET t == Head(rb)
          IN IF state.sequence > 0
             THEN /\ LastClockSinceReset(dequeued, state.pt)
                  /\ report'.kind = "CLK"
                  /\ report'.dt = t.tme - state.pt.tme
                  /\ state.sequence = 1 =>
                       state'.dll = init_dll(state.dll, t.tme, t.tme - state.pt.tme)
             ELSE /\ report'.kind = "CLK"
                  /\ report'.dt = -1
                  /\ report'.cur = Unknown
                  /\ report'.flt = Unknown
                  /\ state'.dll = state.dll
     /\ state'.pt # state.pt => (ClockRead /\ state'.pt = Head(rb))
  ]_vars

\* a Clock reported with a delta after a Start, Continue or Stop and two
\* Clocks since
C36_Witness ==
  /\ report.kind = "CLK"
  /\ report.dt > 0
  /\ state.sequence >= 2
  /\ \E i \in 1..Len(dequeued) : IsTransport(dequeued[i].msg)
  /\ Newest(dequeued) = state.pt

(***************************************************************************)
(* C37                                                                     *)
(***************************************************************************)
\* the block of this step and the one before it are consecutive blocks of the
\* running client on Rolling snapshots, of one length, with one positive
\* interval
TwoRollingBlocks ==
  /\ RunStep
  /\ m_xstate = JackTransportRolling
  /\ xstate = JackTransportRolling
  /\ xstate' = JackTransportRolling
  /\ nframes' = nframes
  /\ tempo_source(xpos) # "none"
  /\ tempo_source(xpos') # "none"
  /\ clock_tick_interval(xpos') = clock_tick_interval(xpos)
  /\ clock_tick_interval(xpos')[1] > 0

\* calls that send a Clock in the block (lines 324 and 390)
ClocksSent(buf) == Len(Msgs(buf, MIDI_RT_CLOCK))

\* at most n/interval + 1 Clocks: (count - 1) * interval <= n
PulseBound(buf, xp, n) ==
  LET iv == clock_tick_interval(xp)
  IN (ClocksSent(buf) - 1) * iv[1] <= n * iv[2]

\* C37, as stated, for runs of two blocks: two consecutive Rolling blocks of
\* length n at a constant positive interval below n cover more than
\* interval + n frames, so whatever frames their snapshots carry one of them
\* sends a Clock; and the block sends no more than n/interval + 1 Clocks.
C37_ClockNeverStalls ==
  [][TwoRollingBlocks =>
       /\ RatLess(clock_tick_interval(xpos'), RatOfInt(nframes')) =>
            ClocksSent(port_buf) + ClocksSent(port_buf') >= 1
       /\ PulseBound(port_buf', xpos', nframes')
  ]_vars

(***************************************************************************)
(* C38                                                                     *)
(***************************************************************************)
\* a step taken while the client does not run that is neither of the main
\* thread nor of a request to exit: a call of process()
CallbackWhileNotRunning ==
  /\ client_state # "Run"
  /\ client_state' = client_state
  /\ UNCHANGED main_vars

\* C38: a call of process() while client_state is not Run leaves the port
\* buffer empty and m_xstate, mclk_last_tick, song_position_sync and last_xpos
\* as they were, whatever the transport does.
C38_NoEffectUnlessRunning ==
  [][CallbackWhileNotRunning =>
       /\ port_buf' = <<>>
       /\ m_xstate' = m_xstate
       /\ mclk_last_tick' = mclk_last_tick
       /\ song_position_sync' = song_position_sync
       /\ last_xpos' = last_xpos
  ]_vars

\* after a request to exit, before main() has cleaned up: the buffer of the
\* last block is empty while the state the running client left behind (rolling,
\* a sync target armed, the accumulator advanced, a position remembered) is
\* still there
C38_Witness ==
  /\ client_state = "Exit"
  /\ clock_main_pc = "loop"
  /\ port_buf = <<>>
  /\ tick_origin = -1
  /\ m_xstate = JackTransportRolling
  /\ song_position_sync > 0
  /\ RatLess(<<0, 1>>, mclk_last_tick)
  /\ last_xpos.valid
  /\ xpos.valid
  /\ clock_tick_interval(xpos) = <<1, 1>>

====
